---- MODULE Spec2Model ----
(***************************************************************************)
(* A model of the GRC tool core (python/grc_agent): framework-document     *)
(* loading, control lookup over the four framework-document shapes, the    *)
(* heuristic rules (CMMC level gating, FIPS-199 baseline selection,        *)
(* POA&M/finding synthesis) and the paired-table scan of the DOCX control  *)
(* extractor.                                                              *)
(*                                                                         *)
(* Python values are modelled as follows.  A str is a TLA+ string (a       *)
(* sequence of characters: Len, Head, Tail, SubSeq and \o act on it).  A   *)
(* dict / JSON object is a record whose DOMAIN is the set of keys present. *)
(* A list / JSON array is a sequence.  None is PyNone where a string is    *)
(* expected and NoControl where a control dict is expected.  A raised      *)
(* exception is the record Raised(kind), which every caller propagates.    *)
(***************************************************************************)
EXTENDS Integers, Sequences, FiniteSets, TLC

VARIABLES
    store,      \* the data/ directory: file name -> parsed JSON document
    call,       \* the arguments of the tool invocation under study
    result,     \* what that invocation returned (NotCalled before it ran)
    prev,       \* what the invocation before it returned
    clock,      \* datetime.now(timezone.utc): [day, sec]
    tables,     \* doc.tables of the converted DOCX document
    i,          \* the table scan's index
    controls,   \* the table scan's output list
    tasks,      \* the concurrently running tool coroutines
    reads,      \* file name -> number of load_json reads started
    readsDone,  \* file name -> number of load_json reads completed
    started     \* number of tool invocations started so far

vars == <<store, call, result, prev, clock, tables, i, controls, tasks,
          reads, readsDone, started>>

(***************************************************************************)
(* Python values                                                           *)
(***************************************************************************)
PyNone == "<None>"
NoControl == [py_none |-> TRUE]
NotCalled == [not_called |-> TRUE]
Raised(kind) == [raised |-> kind]
IsRaised(v) == "raised" \in DOMAIN v
\* a JSON value that is not an object where the code expects one
NonObject == [json_type |-> "array"]
IsObject(v) == "json_type" \notin DOMAIN v
\* a file that cannot be read or parsed
Unreadable == [unreadable |-> TRUE]
\* dict.get(key, default)
Get(d, k, default) == IF k \in DOMAIN d THEN d[k] ELSE default
\* truthiness of a dict-or-None value
Falsy(v) == v = NoControl \/ DOMAIN v = {}

(***************************************************************************)
(* str methods                                                             *)
(***************************************************************************)
UpperLetters == "ABCDEFGHIJKLMNOPQRSTUVWXYZ"
LowerLetters == "abcdefghijklmnopqrstuvwxyz"
DigitChars == "0123456789"
Whitespace == {" ", "\t", "\n", "\r"}
CharAt(s, k) == SubSeq(s, k, k)
Chars(alphabet) == {CharAt(alphabet, k) : k \in 1..Len(alphabet)}
UpperSet == Chars(UpperLetters)
LowerSet == Chars(LowerLetters)
DigitSet == Chars(DigitChars)
ToLower == [c \in UpperSet |->
              CharAt(LowerLetters, CHOOSE k \in 1..26 : CharAt(UpperLetters, k) = c)]
ToUpper == [c \in LowerSet |->
              CharAt(UpperLetters, CHOOSE k \in 1..26 : CharAt(LowerLetters, k) = c)]
IsUpper(c) == c \in UpperSet
IsLower(c) == c \in LowerSet
IsDigit(c) == c \in DigitSet
lower_char(c) == IF c \in UpperSet THEN ToLower[c] ELSE c
upper_char(c) == IF c \in LowerSet THEN ToUpper[c] ELSE c

RECURSIVE lower(_)
lower(s) == IF Len(s) = 0 THEN "" ELSE lower_char(Head(s)) \o lower(Tail(s))

RECURSIVE lstrip(_)
lstrip(s) == IF Len(s) > 0 /\ Head(s) \in Whitespace THEN lstrip(Tail(s)) ELSE s

RECURSIVE rstrip(_)
rstrip(s) ==
    IF Len(s) > 0 /\ CharAt(s, Len(s)) \in Whitespace
    THEN rstrip(SubSeq(s, 1, Len(s) - 1))
    ELSE s

strip(s) == rstrip(lstrip(s))

\* a plausible slip: the id is trimmed but its case is kept
normalize_keeps_case(text) == strip(text)

_normalize(text) == lower(strip(text))

startswith(s, prefix) == Len(prefix) <= Len(s) /\ SubSeq(s, 1, Len(prefix)) = prefix

\* needle in hay
Contains(hay, needle) ==
    \E k \in 0..(Len(hay) - Len(needle)) : SubSeq(hay, k + 1, k + Len(needle)) = needle

(***************************************************************************)
(* Framework files and their loading                                       *)
(***************************************************************************)
FRAMEWORK_FILES ==
    ("NIST 800-53" :> "nist-800-53-r5.json") @@
    ("NIST 800-171" :> "nist-800-171-r2.json") @@
    ("CMMC" :> "cmmc-2.0-practices.json") @@
    ("NIST AI RMF" :> "nist-ai-rmf.json") @@
    ("ISO 42001" :> "iso-42001.json") @@
    ("EU AI Act" :> "eu-ai-act.json") @@
    ("ISO 27001" :> "iso-27001.json") @@
    ("SOC 2" :> "soc2.json") @@
    ("CSA CCM" :> "csa-ccm.json") @@
    ("NIST Privacy Framework" :> "nist-privacy-framework.json") @@
    ("GDPR" :> "gdpr.json") @@
    ("CCPA" :> "ccpa.json") @@
    ("OECD AI Principles" :> "oecd-ai-principles.json") @@
    ("White House EO 14110" :> "white-house-eo-14110.json") @@
    ("DFARS 252.204-7012" :> "dfars-252.204-7012.json") @@
    ("FISMA" :> "fisma.json") @@
    ("FedRAMP" :> "fedramp-baselines.json")

MAPPINGS_FILE == "framework-mappings.json"

Files == {FRAMEWORK_FILES[f] : f \in DOMAIN FRAMEWORK_FILES} \cup {MAPPINGS_FILE}

\* read_text + json.loads: the parsed document, or the I/O / parse error
load_json(fs, path) ==
    IF path \notin DOMAIN fs \/ fs[path] = Unreadable THEN Raised("OSError") ELSE fs[path]

load_framework_data(fs, file_name) == load_json(fs, file_name)

load_framework_mappings(fs) == load_json(fs, MAPPINGS_FILE)

(***************************************************************************)
(* _find_control and control_lookup                                        *)
(***************************************************************************)
\* for item in items: if _normalize(item.get(key, "")) == target: return item
RECURSIVE scan_list(_, _, _)
scan_list(items, key, target) ==
    IF Len(items) = 0 THEN NoControl
    ELSE IF ~IsObject(Head(items)) THEN Raised("AttributeError")
    ELSE IF _normalize(Get(Head(items), key, "")) = target THEN Head(items)
    ELSE scan_list(Tail(items), key, target)

\* for group in groups: for child in group.get(childKey, []): on a match
\* return {**child, annotKey: group.get(annotFrom)}
RECURSIVE scan_nested(_, _, _, _, _)
scan_nested(groups, childKey, annotKey, annotFrom, target) ==
    IF Len(groups) = 0 THEN NoControl
    ELSE IF ~IsObject(Head(groups)) THEN Raised("AttributeError")
    ELSE LET hit == scan_list(Get(Head(groups), childKey, <<>>), "id", target)
         IN  IF IsRaised(hit) THEN hit
             ELSE IF hit # NoControl
             THEN (annotKey :> Get(Head(groups), annotFrom, PyNone)) @@ hit
             ELSE scan_nested(Tail(groups), childKey, annotKey, annotFrom, target)

fedramp_control(baselines, target) ==
    LET hit == scan_list(baselines, "baseline", target)
    IN  IF IsRaised(hit) \/ hit = NoControl THEN hit
        ELSE IF "baseline" \notin DOMAIN hit THEN Raised("KeyError")
        ELSE [id |-> hit.baseline,
              name |-> "FedRAMP " \o hit.baseline \o " baseline",
              requirements |-> <<Get(hit, "description", "")>>]

\* the framework-specific branches tried after the flat controls list
find_in_shape(framework, data, target) ==
    LET cmmc == IF framework = "CMMC"
                THEN scan_nested(Get(data, "levels", <<>>), "practices", "level", "level", target)
                ELSE NoControl
        airmf == IF framework = "NIST AI RMF"
                 THEN scan_nested(Get(data, "functions", <<>>), "categories", "function", "id", target)
                 ELSE NoControl
        fedramp == IF framework = "FedRAMP"
                   THEN fedramp_control(Get(data, "baselines", <<>>), target)
                   ELSE NoControl
    IN  IF cmmc # NoControl THEN cmmc
        ELSE IF airmf # NoControl THEN airmf
        ELSE fedramp

_find_control(fs, framework, control_id) ==
    LET file_name == Get(FRAMEWORK_FILES, framework, "")
    IN  IF file_name = "" THEN NoControl
        ELSE LET data == load_framework_data(fs, file_name)
                 target == _normalize(control_id)
             IN  IF IsRaised(data) THEN data
                 ELSE IF ~IsObject(data) THEN Raised("AttributeError")
                 ELSE LET flat == IF "controls" \in DOMAIN data
                                  THEN scan_list(data.controls, "id", target)
                                  ELSE NoControl
                      IN  IF flat # NoControl THEN flat
                          ELSE find_in_shape(framework, data, target)

NotFoundResult(a) ==
    [framework |-> a.framework,
     control_id |-> a.control_id,
     control_name |-> PyNone,
     requirements |-> <<>>,
     assessment_objectives |-> <<>>]

\* a plausible slip: the "if not control" guard is missing, so a lookup that
\* found nothing dereferences None
control_lookup_unguarded(fs, a) ==
    LET control == _find_control(fs, a.framework, a.control_id)
    IN  IF IsRaised(control) THEN control
        ELSE IF control = NoControl THEN Raised("AttributeError")
        ELSE [framework |-> a.framework,
              control_id |-> Get(control, "id", a.control_id),
              control_name |-> Get(control, "name", PyNone),
              requirements |-> Get(control, "requirements", <<>>),
              assessment_objectives |-> Get(control, "assessment_objectives", <<>>)]

control_lookup(fs, a) ==
    LET control == _find_control(fs, a.framework, a.control_id)
    IN  IF IsRaised(control) THEN control
        ELSE IF Falsy(control) THEN NotFoundResult(a)
        ELSE [framework |-> a.framework,
              control_id |-> Get(control, "id", a.control_id),
              control_name |-> Get(control, "name", PyNone),
              requirements |-> Get(control, "requirements", <<>>),
              assessment_objectives |-> Get(control, "assessment_objectives", <<>>)]

(***************************************************************************)
(* framework_mapper, gap_analyzer, cmmc_level_checker                      *)
(***************************************************************************)
\* a plausible slip: the entries are not filtered by their source
related_entries_any_source(entries, source_framework) == entries

\* [entry for entry in entries if entry.get("source") == source_framework]
RECURSIVE related_entries(_, _)
related_entries(entries, source_framework) ==
    IF Len(entries) = 0 THEN <<>>
    ELSE (IF Get(Head(entries), "source", PyNone) = source_framework
          THEN <<Head(entries)>> ELSE <<>>)
         \o related_entries(Tail(entries), source_framework)

\* a plausible slip: the id stored in the document is compared as written
RECURSIVE mapped_in_entry_as_written(_, _, _)
mapped_in_entry_as_written(ms, target, normalized) ==
    IF Len(ms) = 0 THEN <<>>
    ELSE (IF Get(Head(ms), "source_control_id", "") = normalized
          THEN <<[framework |-> target, control_id |-> Head(ms).target_control_id]>>
          ELSE <<>>)
         \o mapped_in_entry_as_written(Tail(ms), target, normalized)

\* the pairs of one entry whose normalized source_control_id equals the id
RECURSIVE mapped_in_entry(_, _, _)
mapped_in_entry(ms, target, normalized) ==
    IF Len(ms) = 0 THEN <<>>
    ELSE (IF _normalize(Get(Head(ms), "source_control_id", "")) = normalized
          THEN <<[framework |-> target, control_id |-> Head(ms).target_control_id]>>
          ELSE <<>>)
         \o mapped_in_entry(Tail(ms), target, normalized)

RECURSIVE mapped_for(_, _)
mapped_for(related, normalized) ==
    IF Len(related) = 0 THEN <<>>
    ELSE mapped_in_entry(Get(Head(related), "mappings", <<>>), Head(related).target, normalized)
         \o mapped_for(Tail(related), normalized)

framework_mapper(fs, a) ==
    LET mappings_file == load_framework_mappings(fs)
    IN  IF IsRaised(mappings_file) THEN mappings_file
        ELSE IF ~IsObject(mappings_file) THEN Raised("AttributeError")
        ELSE LET related == related_entries(Get(mappings_file, "mappings", <<>>),
                                            a.source_framework)
             IN  [source_framework |-> a.source_framework,
                  mappings |-> [k \in 1..Len(a.control_ids) |->
                                   [source_control_id |-> a.control_ids[k],
                                    related |-> mapped_for(related, _normalize(a.control_ids[k]))]]]

\* a plausible slip: the requirement is compared as written, not normalized
RECURSIVE gaps_in_as_written(_, _)
gaps_in_as_written(requirements, description) ==
    IF Len(requirements) = 0 THEN <<>>
    ELSE (IF Contains(description, Head(requirements))
          THEN <<>> ELSE <<Head(requirements)>>)
         \o gaps_in_as_written(Tail(requirements), description)

\* [req for req in requirements if _normalize(req) not in description]
RECURSIVE gaps_in(_, _)
gaps_in(requirements, description) ==
    IF Len(requirements) = 0 THEN <<>>
    ELSE (IF Contains(description, _normalize(Head(requirements)))
          THEN <<>> ELSE <<Head(requirements)>>)
         \o gaps_in(Tail(requirements), description)

\* a plausible slip: the "if not control" guard is missing, and None.get raises
gap_analyzer_unguarded(fs, a) ==
    LET control == _find_control(fs, a.framework, a.control_id)
    IN  IF IsRaised(control) THEN control
        ELSE IF Falsy(control) THEN Raised("AttributeError")
        ELSE [control_id |-> a.control_id,
              requirements |-> Get(control, "requirements", <<>>),
              implementation_description |-> a.implementation_description,
              heuristic_gaps |-> gaps_in(Get(control, "requirements", <<>>),
                                         _normalize(a.implementation_description))]

gap_analyzer(fs, a) ==
    LET control == _find_control(fs, a.framework, a.control_id)
    IN  IF IsRaised(control) THEN control
        ELSE IF Falsy(control)
        THEN [control_id |-> a.control_id,
              requirements |-> <<>>,
              implementation_description |-> a.implementation_description,
              heuristic_gaps |-> <<"Control not found in data set.">>]
        ELSE [control_id |-> a.control_id,
              requirements |-> Get(control, "requirements", <<>>),
              implementation_description |-> a.implementation_description,
              heuristic_gaps |-> gaps_in(Get(control, "requirements", <<>>),
                                         _normalize(a.implementation_description))]

\* the normalized ids submitted with status implemented or satisfied
implemented_set(implementations) ==
    {_normalize(implementations[k].control_id) :
        k \in {j \in 1..Len(implementations) :
                 _normalize(implementations[j].status) \in {"implemented", "satisfied"}}}

\* a plausible slip: the number of practices met is reported, not the number missing
missing_count_counts_met(practices, implemented) ==
    Cardinality({k \in 1..Len(practices) :
                   _normalize(Get(practices[k], "id", "")) \in implemented})

\* len([p for p in practices if _normalize(p.get("id", "")) not in implemented])
missing_count(practices, implemented) ==
    Cardinality({k \in 1..Len(practices) :
                   _normalize(Get(practices[k], "id", "")) \notin implemented})

\* a plausible slip: the break is missing, so the walk goes on past a level
\* with missing practices
RECURSIVE walk_on(_, _, _, _)
walk_on(levels, implemented, achieved, gaps) ==
    IF Len(levels) = 0 THEN [level |-> achieved, gaps_to_next_level |-> gaps]
    ELSE LET missing == missing_count(Get(Head(levels), "practices", <<>>), implemented)
         IN  IF missing = 0
             THEN walk_on(Tail(levels), implemented, Get(Head(levels), "level", "None"), gaps)
             ELSE walk_on(Tail(levels), implemented, achieved, missing)

walk_levels_no_break(levels, implemented, achieved) == walk_on(levels, implemented, achieved, 0)

\* a plausible slip: "if missing" for "if not missing"
RECURSIVE walk_levels_inverted(_, _, _)
walk_levels_inverted(levels, implemented, achieved) ==
    IF Len(levels) = 0 THEN [level |-> achieved, gaps_to_next_level |-> 0]
    ELSE LET missing == missing_count(Get(Head(levels), "practices", <<>>), implemented)
         IN  IF missing # 0
             THEN walk_levels_inverted(Tail(levels), implemented,
                                       Get(Head(levels), "level", "None"))
             ELSE [level |-> achieved, gaps_to_next_level |-> missing]

\* a plausible slip: the walk halts, but counts the missing practices of the
\* levels after the halt point too
RECURSIVE missing_from(_, _)
missing_from(levels, implemented) ==
    IF Len(levels) = 0 THEN 0
    ELSE missing_count(Get(Head(levels), "practices", <<>>), implemented)
            + missing_from(Tail(levels), implemented)

RECURSIVE walk_levels_counts_later_levels(_, _, _)
walk_levels_counts_later_levels(levels, implemented, achieved) ==
    IF Len(levels) = 0 THEN [level |-> achieved, gaps_to_next_level |-> 0]
    ELSE LET missing == missing_count(Get(Head(levels), "practices", <<>>), implemented)
         IN  IF missing = 0
             THEN walk_levels_counts_later_levels(Tail(levels), implemented,
                                                  Get(Head(levels), "level", "None"))
             ELSE [level |-> achieved,
                   gaps_to_next_level |-> missing_from(levels, implemented)]

\* the loop over data.get("levels", []): stops at the first level with a gap
RECURSIVE walk_levels(_, _, _)
walk_levels(levels, implemented, achieved) ==
    IF Len(levels) = 0 THEN [level |-> achieved, gaps_to_next_level |-> 0]
    ELSE LET missing == missing_count(Get(Head(levels), "practices", <<>>), implemented)
         IN  IF missing = 0
             THEN walk_levels(Tail(levels), implemented, Get(Head(levels), "level", "None"))
             ELSE [level |-> achieved, gaps_to_next_level |-> missing]

cmmc_level_checker(fs, a) ==
    LET data == load_framework_data(fs, FRAMEWORK_FILES["CMMC"])
    IN  IF IsRaised(data) THEN data
        ELSE IF ~IsObject(data) THEN Raised("AttributeError")
        ELSE walk_levels(Get(data, "levels", <<>>), implemented_set(a.implementations), "None")

(***************************************************************************)
(* Framework documents the lookups are run against                         *)
(***************************************************************************)
SeqsUpTo(S, n) == UNION {[1..k -> S] : k \in 0..n}

\* the longest flat controls list drawn
MaxControls == 2

ControlPool ==
    {[id |-> "AC-1", name |-> "Policy and Procedures",
      requirements |-> <<"access control policy">>,
      assessment_objectives |-> <<"AC-01a">>],
     [id |-> "ac-2", name |-> "Account Management",
      requirements |-> <<"least privilege", "audit logging">>],
     [id |-> " Ac-1 ", name |-> "Duplicate of AC-1", requirements |-> <<>>],
     [name |-> "Control without id"]}

FlatDocs == {[controls |-> cs] : cs \in SeqsUpTo(ControlPool, MaxControls)}

EmptyDoc == [k \in {} |-> ""]

\* CMMC: levels[].practices[]
LevelLabels == <<"Level 1", "Level 2", "Level 3">>

PracticePool ==
    <<[id |-> "AC.L1-3.1.1", name |-> "Authorized Access Control",
       requirements |-> <<"limit system access">>],
      [id |-> "IA.L2-3.5.3", name |-> "Multifactor Authentication",
       requirements |-> <<"use multifactor authentication">>],
      [id |-> "SC.L3-3.13.4", name |-> "Shared Resource Control",
       requirements |-> <<"prevent unauthorized transfer">>]>>

\* the practices of the pool that the assignment puts under level k, in pool order
RECURSIVE PracticesAt(_, _, _)
PracticesAt(assign, k, j) ==
    IF j > Len(PracticePool) THEN <<>>
    ELSE (IF assign[j] = k THEN <<PracticePool[j]>> ELSE <<>>) \o PracticesAt(assign, k, j + 1)

CmmcDoc(n, assign) ==
    [levels |-> [k \in 1..n |-> [level |-> LevelLabels[k],
                                 practices |-> PracticesAt(assign, k, 1)]]]

\* every way to declare 1..3 levels and put each practice under one level or none
CmmcDocs ==
    {CmmcDoc(n, assign) : n \in 1..Len(LevelLabels),
                          assign \in [1..Len(PracticePool) -> 0..Len(LevelLabels)]}

\* NIST AI RMF: functions[].categories[]
AiRmfDocs ==
    {[functions |-> <<[id |-> "GOVERN", categories |-> <<>>],
                      [id |-> "MAP",
                       categories |-> <<[id |-> "MAP 1.1", name |-> "Context is established",
                                         requirements |-> <<"document intended purpose">>],
                                        [id |-> "MAP 1.2", name |-> "Interdisciplinary team",
                                         requirements |-> <<>>]>>]>>],
     [functions |-> <<[categories |-> <<[id |-> "MAP 1.1", name |-> "Context is established"]>>]>>],
     [functions |-> <<>>]}

\* FedRAMP: baselines[]
FedrampDocs ==
    {[baselines |-> <<[baseline |-> "Low", description |-> "Low impact baseline"],
                      [baseline |-> "High", description |-> "High impact baseline"]>>],
     [baselines |-> <<[baseline |-> "High"]>>],
     [baselines |-> <<>>]}

\* documents that break the expected structure, and a file that cannot be read
MalformedDocs ==
    {NonObject,
     [controls |-> <<NonObject>>],
     Unreadable}

SmallCmmcDocs == {d \in CmmcDocs : Len(d.levels) <= 2}

LookupFrameworks == {"NIST 800-53", "CMMC", "NIST AI RMF", "FedRAMP", "HIPAA", ""}

LookupDocs(fw) ==
    CASE fw = "NIST 800-53" -> FlatDocs \cup {EmptyDoc, CmmcDoc(1, <<1, 1, 0>>)} \cup MalformedDocs
      [] fw = "CMMC" -> SmallCmmcDocs \cup {EmptyDoc, [controls |-> <<PracticePool[1]>>],
                                            [levels |-> <<NonObject>>],
                                            [levels |-> <<[practices |-> <<NonObject>>]>>]}
                                      \cup MalformedDocs
      [] fw = "NIST AI RMF" -> AiRmfDocs \cup {EmptyDoc} \cup MalformedDocs
      [] fw = "FedRAMP" -> FedrampDocs \cup {EmptyDoc, [baselines |-> <<NonObject>>]}
                                       \cup MalformedDocs
      [] OTHER -> {EmptyDoc}

\* the most whitespace put on either side of an id
MaxPad == 1

RECURSIVE Pads(_)
Pads(n) == IF n = 0 THEN {""} ELSE {""} \cup {w \o p : w \in {" ", "\t"}, p \in Pads(n - 1)}

RECURSIVE CaseVariants(_)
CaseVariants(s) ==
    IF Len(s) = 0 THEN {""}
    ELSE {h \o t : h \in {lower_char(Head(s)), upper_char(Head(s))}, t \in CaseVariants(Tail(s))}

CanonicalIds ==
    {"AC-1", "ac-2", "AC.L1-3.1.1", "IA.L2-3.5.3", "MAP 1.1", "Low"}

QueryIds ==
    UNION {{l \o v \o r : l \in Pads(MaxPad), r \in Pads(MaxPad), v \in CaseVariants(c)} :
           c \in CanonicalIds}
    \cup {"", " ", "ZZ-9", "AC-11", "A C-1"}

(***************************************************************************)
(* SpecLookup: one control_lookup call on drawn inputs                     *)
(***************************************************************************)
Idle ==
    /\ prev = NotCalled
    /\ clock = [day |-> 0, sec |-> 0]
    /\ tables = <<>>
    /\ i = 0
    /\ controls = <<>>
    /\ tasks = <<>>
    /\ reads = <<>>
    /\ readsDone = <<>>
    /\ started = 0

InitLookup ==
    /\ \E fw \in LookupFrameworks, q \in QueryIds :
         /\ call = [op |-> "control_lookup", framework |-> fw, control_id |-> q]
         /\ \E d \in LookupDocs(fw) :
              store = IF fw \in DOMAIN FRAMEWORK_FILES THEN FRAMEWORK_FILES[fw] :> d ELSE <<>>
    /\ result = NotCalled
    /\ Idle

ControlLookup ==
    /\ call.op = "control_lookup"
    /\ result = NotCalled
    /\ result' = control_lookup(store, call)
    /\ UNCHANGED <<store, call, prev, clock, tables, i, controls, tasks, reads,
                   readsDone, started>>

NextLookup == ControlLookup

SpecLookup == InitLookup /\ [][NextLookup]_vars

(***************************************************************************)
(* What the claims about lookup speak of                                   *)
(***************************************************************************)
AllObjects(items) == \A k \in 1..Len(items) : IsObject(items[k])

\* the document is readable and every element the lookup visits is an object
WellFormed(d) ==
    /\ d # Unreadable
    /\ IsObject(d)
    /\ AllObjects(Get(d, "controls", <<>>))
    /\ AllObjects(Get(d, "baselines", <<>>))
    /\ \A key \in {"levels", "functions"} :
         /\ AllObjects(Get(d, key, <<>>))
         /\ \A k \in 1..Len(Get(d, key, <<>>)) :
              /\ AllObjects(Get(d[key][k], "practices", <<>>))
              /\ AllObjects(Get(d[key][k], "categories", <<>>))

Elems(items) == {items[k] : k \in 1..Len(items)}

\* the id-bearing elements of a document in the shape of its framework
ControlElems(fw, d) ==
    Elems(Get(d, "controls", <<>>))
    \cup (IF fw = "CMMC"
          THEN UNION {Elems(Get(l, "practices", <<>>)) : l \in Elems(Get(d, "levels", <<>>))}
          ELSE {})
    \cup (IF fw = "NIST AI RMF"
          THEN UNION {Elems(Get(f, "categories", <<>>)) : f \in Elems(Get(d, "functions", <<>>))}
          ELSE {})

\* the ids of a document (an element that carries no id has the empty id)
IdsOf(fw, d) ==
    {Get(e, "id", "") : e \in ControlElems(fw, d)}
    \cup (IF fw = "FedRAMP"
          THEN {Get(b, "baseline", "") : b \in Elems(Get(d, "baselines", <<>>))}
          ELSE {})

\* the ids written in a document
IdsPresent(fw, d) ==
    {e.id : e \in {x \in ControlElems(fw, d) : "id" \in DOMAIN x}}
    \cup (IF fw = "FedRAMP"
          THEN {b.baseline : b \in {x \in Elems(Get(d, "baselines", <<>>)) : "baseline" \in DOMAIN x}}
          ELSE {})

\* s without its leading and trailing whitespace: from its first to its last
\* character that is not whitespace
Core(s) ==
    LET solid == {k \in 1..Len(s) : CharAt(s, k) \notin Whitespace}
    IN  IF solid = {} THEN ""
        ELSE SubSeq(s, CHOOSE k \in solid : \A j \in solid : k <= j,
                       CHOOSE k \in solid : \A j \in solid : k >= j)

SameIgnoringCase(x, y) ==
    /\ Len(x) = Len(y)
    /\ \A k \in 1..Len(x) : upper_char(CharAt(x, k)) = upper_char(CharAt(y, k))

\* v differs from c only in letter case and in leading/trailing whitespace
IsVariant(v, c) == SameIgnoringCase(Core(v), Core(c))

Supported(fw) == fw \in DOMAIN FRAMEWORK_FILES
DocOf(fw) == store[FRAMEWORK_FILES[fw]]

\* C3: control_lookup with an unsupported framework name, or with a control id
\* that matches no control of the framework's document, returns the not-found
\* result (control_name null, empty requirements and assessment_objectives,
\* framework and control_id echoed) and does not raise.
C3_NotFoundIsAValue ==
    (/\ call.op = "control_lookup"
     /\ result # NotCalled
     /\ \/ ~Supported(call.framework)
        \/ /\ WellFormed(DocOf(call.framework))
           /\ \A c \in IdsOf(call.framework, DocOf(call.framework)) :
                ~IsVariant(call.control_id, c))
    => /\ ~IsRaised(result)
       /\ result = [framework |-> call.framework,
                    control_id |-> call.control_id,
                    control_name |-> PyNone,
                    requirements |-> <<>>,
                    assessment_objectives |-> <<>>]

C3_Witness ==
    /\ call.op = "control_lookup"
    /\ call.framework = "CMMC"
    /\ call.control_id = "ZZ-9"
    /\ WellFormed(DocOf("CMMC"))
    /\ Cardinality(IdsPresent("CMMC", DocOf("CMMC"))) = 3
    /\ result = NotFoundResult(call)

\* C4: in every supported framework, a lookup with a case/whitespace variant
\* of an id present in the document returns the same record as the lookup
\* with the id as written in the document.
C4_VariantLookupIdentical ==
    (call.op = "control_lookup" /\ result # NotCalled /\ Supported(call.framework)
        /\ WellFormed(DocOf(call.framework))) =>
        \A c \in IdsPresent(call.framework, DocOf(call.framework)) :
            IsVariant(call.control_id, c) =>
                /\ ~IsRaised(result)
                /\ result.control_name # PyNone
                /\ result = control_lookup(store, [call EXCEPT !.control_id = c])

C4_Witness ==
    /\ call.op = "control_lookup"
    /\ call.framework = "CMMC"
    /\ call.control_id = "\tia.l2-3.5.3 "
    /\ result # NotCalled
    /\ ~IsRaised(result)
    /\ result.control_id = "IA.L2-3.5.3"
    /\ result.control_name = "Multifactor Authentication"

(***************************************************************************)
(* SpecCmmc: cmmc_level_checker on a growing implementations list          *)
(***************************************************************************)
\* the longest implementations list submitted
MaxImpls == 3

ImplItems ==
    {[control_id |-> "ac.l1-3.1.1", status |-> "Implemented"],
     [control_id |-> "ac.l1-3.1.1", status |-> "planned"],
     [control_id |-> " IA.L2-3.5.3", status |-> " satisfied "],
     [control_id |-> " IA.L2-3.5.3", status |-> "not implemented"],
     [control_id |-> "Sc.L3-3.13.4\t", status |-> "IMPLEMENTED"],
     [control_id |-> "Sc.L3-3.13.4\t", status |-> ""],
     [control_id |-> "AC.L1-3.1.2", status |-> "implemented"]}

InitCmmc ==
    /\ \E d \in CmmcDocs : store = FRAMEWORK_FILES["CMMC"] :> d
    /\ call = [op |-> "cmmc_level_checker", implementations |-> <<>>]
    /\ result = NotCalled
    /\ Idle

\* the first check, of the list as it stands
CheckLevel ==
    /\ call.op = "cmmc_level_checker"
    /\ result = NotCalled
    /\ result' = cmmc_level_checker(store, call)
    /\ UNCHANGED <<store, call, prev, clock, tables, i, controls, tasks, reads,
                   readsDone, started>>

\* the caller adds one entry to its list and checks again
AddAndCheckLevel ==
    /\ call.op = "cmmc_level_checker"
    /\ result # NotCalled
    /\ Len(call.implementations) < MaxImpls
    /\ \E item \in ImplItems :
         /\ call' = [call EXCEPT !.implementations = Append(@, item)]
         /\ result' = cmmc_level_checker(store, call')
    /\ prev' = result
    /\ UNCHANGED <<store, clock, tables, i, controls, tasks, reads, readsDone, started>>

NextCmmc == CheckLevel \/ AddAndCheckLevel

SpecCmmc == InitCmmc /\ [][NextCmmc]_vars

CmmcLevels == store[FRAMEWORK_FILES["CMMC"]].levels

\* the practice id is among the submitted ids whose status is implemented or
\* satisfied, up to letter case and surrounding whitespace
MetBy(implementations, id) ==
    \E k \in 1..Len(implementations) :
        /\ \E st \in {"implemented", "satisfied"} : IsVariant(implementations[k].status, st)
        /\ IsVariant(implementations[k].control_id, id)

\* position of a level in the declared order, 'None' lowest
LevelRank(label) ==
    IF \E k \in 1..Len(CmmcLevels) : CmmcLevels[k].level = label
    THEN CHOOSE k \in 1..Len(CmmcLevels) : CmmcLevels[k].level = label
    ELSE 0

CmmcChecked == call.op = "cmmc_level_checker" /\ result # NotCalled

\* the last call added a practice of the document, with status implemented or
\* satisfied, that the list before it did not meet
AddedMissingPractice ==
    /\ CmmcChecked
    /\ prev # NotCalled
    /\ LET n == Len(call.implementations)
           item == call.implementations[n]
           before == SubSeq(call.implementations, 1, n - 1)
       IN  \E l \in Elems(CmmcLevels) : \E p \in Elems(l.practices) :
              /\ MetBy(<<item>>, p.id)
              /\ ~MetBy(before, p.id)

\* C5: if cmmc_level_checker reports level L, every practice of L and of each
\* level declared before L is among the normalized ids submitted as
\* implemented or satisfied; no level is reported while a lower one has a gap.
C5_ReportedLevelFullyMet ==
    CmmcChecked =>
        /\ result.level = "None" \/ LevelRank(result.level) > 0
        /\ \A j \in 1..LevelRank(result.level) :
             \A p \in Elems(CmmcLevels[j].practices) : MetBy(call.implementations, p.id)

C5_Witness ==
    /\ CmmcChecked
    /\ Len(CmmcLevels) = 3
    /\ \A k \in 1..3 : Len(CmmcLevels[k].practices) = 1
    /\ result.level = "Level 2"
    /\ result.gaps_to_next_level = 1

\* C6: adding one previously-missing practice with status implemented or
\* satisfied never yields a level earlier in the declared order ('None'
\* lowest) than the level reported before the addition.
C6_LevelMonotonic ==
    AddedMissingPractice => LevelRank(result.level) >= LevelRank(prev.level)

C6_Witness ==
    /\ AddedMissingPractice
    /\ prev.level = "Level 1"
    /\ result.level = "Level 2"

\* C7: when adding a previously-missing practice leaves the reported level
\* unchanged, gaps_to_next_level is not larger than before the addition.
C7_GapsDoNotGrow ==
    (AddedMissingPractice /\ result.level = prev.level) =>
        result.gaps_to_next_level <= prev.gaps_to_next_level

C7_Witness ==
    /\ AddedMissingPractice
    /\ result.level = prev.level
    /\ prev.gaps_to_next_level = 2
    /\ result.gaps_to_next_level = 1

(***************************************************************************)
(* Spec: the tool coroutines of one server process, run concurrently.      *)
(* Each handler runs up to its await of the file read (load_json), is      *)
(* suspended there while other coroutines run, and then runs to its end.   *)
(***************************************************************************)
\* coroutines that may be in flight at once
NumTasks == 2
\* tool invocations started in one run
MaxCalls == 3

Tasks == 1..NumTasks

NistFile == FRAMEWORK_FILES["NIST 800-53"]
CmmcFile == FRAMEWORK_FILES["CMMC"]

ServerDocs ==
    (NistFile :> [controls |-> <<[id |-> "AC-1", name |-> "Policy and Procedures",
                                  requirements |-> <<"access control policy">>],
                                 [id |-> "AC-2", name |-> "Account Management",
                                  requirements |-> <<"least privilege", "audit logging">>]>>]) @@
    (CmmcFile :> CmmcDoc(2, <<1, 2, 0>>)) @@
    (MAPPINGS_FILE :>
        [mappings |-> <<[source |-> "NIST 800-53", target |-> "ISO 27001",
                         mappings |-> <<[source_control_id |-> "AC-2",
                                         target_control_id |-> "A.9.2.1"]>>]>>])

\* the data directory, with any of its files possibly unreadable
ServerStores ==
    {[f \in DOMAIN ServerDocs |-> IF f \in bad THEN Unreadable ELSE ServerDocs[f]] :
        bad \in SUBSET DOMAIN ServerDocs}

LookupCalls ==
    {[op |-> "control_lookup", framework |-> a[1], control_id |-> a[2]] :
        a \in {<<"NIST 800-53", " ac-2">>, <<"NIST 800-53", "ZZ-9">>,
               <<"CMMC", "ac.l1-3.1.1">>, <<"HIPAA", "AC-2">>}}

GapCalls ==
    {[op |-> "gap_analyzer", framework |-> a[1], control_id |-> a[2],
      implementation_description |-> "We enforce Least Privilege"] :
        a \in {<<"NIST 800-53", "AC-2">>, <<"HIPAA", "AC-2">>}}

CmmcCalls ==
    {[op |-> "cmmc_level_checker", implementations |-> im] :
        im \in {<<>>, <<[control_id |-> "ac.l1-3.1.1", status |-> "implemented"]>>}}

MapperCalls ==
    {[op |-> "framework_mapper", source_framework |-> "NIST 800-53", control_ids |-> ids] :
        ids \in {<<"ac-2">>, <<"AC-2", "ZZ-9">>}}

\* the file whose read the handler awaits ("" when it returns without reading)
FileRead(c) ==
    CASE c.op \in {"control_lookup", "gap_analyzer"} -> Get(FRAMEWORK_FILES, c.framework, "")
      [] c.op = "cmmc_level_checker" -> CmmcFile
      [] c.op = "framework_mapper" -> MAPPINGS_FILE

Tool(fs, c) ==
    CASE c.op = "control_lookup" -> control_lookup(fs, c)
      [] c.op = "gap_analyzer" -> gap_analyzer(fs, c)
      [] c.op = "cmmc_level_checker" -> cmmc_level_checker(fs, c)
      [] c.op = "framework_mapper" -> framework_mapper(fs, c)

IdleTask == [pc |-> "idle", call |-> NotCalled, result |-> NotCalled]

Init ==
    /\ store \in ServerStores
    /\ tasks = [t \in Tasks |-> IdleTask]
    /\ reads = [f \in DOMAIN ServerDocs |-> 0]
    /\ readsDone = [f \in DOMAIN ServerDocs |-> 0]
    /\ started = 0
    /\ call = NotCalled
    /\ result = NotCalled
    /\ prev = NotCalled
    /\ clock = [day |-> 0, sec |-> 0]
    /\ tables = <<>>
    /\ i = 0
    /\ controls = <<>>

\* the handler runs from its entry to its await of the file read; a handler
\* that needs no file runs to its return
CanBegin(t) == tasks[t].pc = "idle" /\ started < MaxCalls

TasksAfterBegin(t, c) ==
    IF FileRead(c) = ""
    THEN [tasks EXCEPT ![t] = [pc |-> "done", call |-> c, result |-> Tool(store, c)]]
    ELSE [tasks EXCEPT ![t] = [pc |-> "reading", call |-> c, result |-> NotCalled]]

ReadsAfterBegin(c) ==
    IF FileRead(c) = "" THEN reads ELSE [reads EXCEPT ![FileRead(c)] = @ + 1]

BeginControlLookup ==
    \E t \in Tasks, c \in LookupCalls :
        /\ CanBegin(t)
        /\ started' = started + 1
        /\ tasks' = TasksAfterBegin(t, c)
        /\ reads' = ReadsAfterBegin(c)
        /\ UNCHANGED <<store, call, result, prev, clock, tables, i, controls, readsDone>>

BeginGapAnalyzer ==
    \E t \in Tasks, c \in GapCalls :
        /\ CanBegin(t)
        /\ started' = started + 1
        /\ tasks' = TasksAfterBegin(t, c)
        /\ reads' = ReadsAfterBegin(c)
        /\ UNCHANGED <<store, call, result, prev, clock, tables, i, controls, readsDone>>

BeginCmmcLevelChecker ==
    \E t \in Tasks, c \in CmmcCalls :
        /\ CanBegin(t)
        /\ started' = started + 1
        /\ tasks' = TasksAfterBegin(t, c)
        /\ reads' = ReadsAfterBegin(c)
        /\ UNCHANGED <<store, call, result, prev, clock, tables, i, controls, readsDone>>

BeginFrameworkMapper ==
    \E t \in Tasks, c \in MapperCalls :
        /\ CanBegin(t)
        /\ started' = started + 1
        /\ tasks' = TasksAfterBegin(t, c)
        /\ reads' = ReadsAfterBegin(c)
        /\ UNCHANGED <<store, call, result, prev, clock, tables, i, controls, readsDone>>

\* the awaited read completes (or fails) and the handler runs to its return
FinishRead ==
    \E t \in Tasks :
        /\ tasks[t].pc = "reading"
        /\ readsDone' = [readsDone EXCEPT ![FileRead(tasks[t].call)] = @ + 1]
        /\ tasks' = [tasks EXCEPT ![t] = [pc |-> "done", call |-> tasks[t].call,
                                          result |-> Tool(store, tasks[t].call)]]
        /\ UNCHANGED <<store, call, result, prev, clock, tables, i, controls, reads,
                       started>>

\* the caller takes the result; the coroutine is gone
Return ==
    \E t \in Tasks :
        /\ tasks[t].pc = "done"
        /\ tasks' = [tasks EXCEPT ![t] = IdleTask]
        /\ UNCHANGED <<store, call, result, prev, clock, tables, i, controls, reads,
                       readsDone, started>>

Next ==
    \/ BeginControlLookup
    \/ BeginGapAnalyzer
    \/ BeginCmmcLevelChecker
    \/ BeginFrameworkMapper
    \/ FinishRead
    \/ Return

Spec == Init /\ [][Next]_vars

\* C1: while lookups of a document that nobody has loaded yet run
\* concurrently, the underlying load of that document (and likewise of the
\* mappings document) is started at most once.
C1_SingleFlightLoad ==
    \A f \in DOMAIN reads : readsDone[f] = 0 => reads[f] <= 1

\* C2: once a lookup has loaded a document, a later lookup made when no
\* other call is in flight is served without another underlying load.
C2_LoadedOncePerProcess ==
    [][\A f \in DOMAIN reads :
          (readsDone[f] >= 1 /\ \A t \in Tasks : tasks[t].pc # "reading")
              => reads'[f] = reads[f]]_vars

(***************************************************************************)
(* baseline_selector                                                       *)
(***************************************************************************)
\* a plausible slip: the capitalised spelling is ranked too
impact_rank_with_capitals ==
    ("low" :> 1) @@ ("moderate" :> 2) @@ ("high" :> 3)
        @@ ("Low" :> 1) @@ ("Moderate" :> 2) @@ ("High" :> 3)

impact_rank == ("low" :> 1) @@ ("moderate" :> 2) @@ ("high" :> 3)
rank_to_level == (1 :> "low") @@ (2 :> "moderate") @@ (3 :> "high")
baseline_map ==
    ("low" :> "FedRAMP Low") @@ ("moderate" :> "FedRAMP Moderate")
        @@ ("high" :> "FedRAMP High")

\* a plausible slip: the high-water mark is taken over two of the three
max_without_availability(a, b, c) == IF a >= b THEN a ELSE b

\* max(c_rank, i_rank, a_rank)
max(a, b, c) ==
    IF a >= b /\ a >= c THEN a ELSE IF b >= c THEN b ELSE c

\* any(needle in t for t in data_types)
any_contains(data_types, needle) ==
    \E k \in 1..Len(data_types) : Contains(data_types[k], needle)

\* [_normalize(t) for t in ...]
normalize_each(items) == [k \in 1..Len(items) |-> _normalize(items[k])]

\* a plausible slip: the CUI rule is tried before the CUI-with-mission rule
dod_impact_level_cui_first(data_types, mission_text, overall) ==
    IF any_contains(data_types, "classified") \/ any_contains(data_types, "secret")
    THEN "IL6"
    ELSE IF any_contains(data_types, "cui") THEN "IL4"
    ELSE IF any_contains(data_types, "cui")
            /\ (Contains(mission_text, "mission critical")
                  \/ Contains(mission_text, "national security"))
    THEN "IL5"
    ELSE IF any_contains(data_types, "public") \/ overall = "low" THEN "IL2"
    ELSE PyNone

\* the if / elif chain that sets dod_il
dod_impact_level(data_types, mission_text, overall) ==
    IF any_contains(data_types, "classified") \/ any_contains(data_types, "secret")
    THEN "IL6"
    ELSE IF any_contains(data_types, "cui")
            /\ (Contains(mission_text, "mission critical")
                  \/ Contains(mission_text, "national security"))
    THEN "IL5"
    ELSE IF any_contains(data_types, "cui") THEN "IL4"
    ELSE IF any_contains(data_types, "public") \/ overall = "low" THEN "IL2"
    ELSE PyNone

\* sep.join(items)
RECURSIVE join(_, _)
join(sep, items) ==
    IF Len(items) = 0 THEN ""
    ELSE IF Len(items) = 1 THEN items[1]
    ELSE items[1] \o sep \o join(sep, Tail(items))

baseline_rationale(args, overall, fedramp_baseline, dod_il) ==
    LET head == <<"FIPS 199 categorization: C=" \o args.confidentiality_impact
                      \o ", I=" \o args.integrity_impact
                      \o ", A=" \o args.availability_impact,
                  "High-water mark: " \o overall
                      \o " (highest of C/I/A determines overall impact)",
                  "FedRAMP baseline: " \o fedramp_baseline>>
        il   == IF dod_il = PyNone THEN <<>>
                ELSE IF dod_il \in {"IL5", "IL6"}
                THEN <<"DoD Impact Level: " \o dod_il,
                       "Note: IL5/IL6 require DISA Cloud Computing SRG overlays beyond FedRAMP controls">>
                ELSE <<"DoD Impact Level: " \o dod_il>>
        rest == <<"Data types: " \o join(", ", Get(args, "data_types", <<>>)),
                  "Mission: " \o Get(args, "mission", "")>>
        regs == Get(args, "regulatory_requirements", <<>>)
    IN  head \o il \o rest
          \o (IF Len(regs) > 0
              THEN <<"Regulatory requirements: " \o join(", ", regs)>>
              ELSE <<>>)

baseline_selector(args) ==
    IF {"confidentiality_impact", "integrity_impact", "availability_impact"}
           \ DOMAIN args # {}
    THEN Raised("KeyError")
    ELSE
    LET c_rank == Get(impact_rank, args.confidentiality_impact, 1)
        i_rank == Get(impact_rank, args.integrity_impact, 1)
        a_rank == Get(impact_rank, args.availability_impact, 1)
        overall_rank == max(c_rank, i_rank, a_rank)
        overall == Get(rank_to_level, overall_rank, "low")
        fedramp_baseline == Get(baseline_map, overall, "FedRAMP Low")
        data_types == normalize_each(Get(args, "data_types", <<>>))
        mission_text == _normalize(Get(args, "mission", ""))
        dod_il == dod_impact_level(data_types, mission_text, overall)
    IN  [fedramp_baseline |-> fedramp_baseline,
         dod_impact_level |-> dod_il,
         fips_199_categorization |->
             [confidentiality |-> args.confidentiality_impact,
              integrity |-> args.integrity_impact,
              availability |-> args.availability_impact,
              overall |-> overall],
         rationale |-> baseline_rationale(args, overall, fedramp_baseline, dod_il)]

(***************************************************************************)
(* SpecBaseline: one baseline_selector call on drawn inputs                *)
(***************************************************************************)
ImpactValues == {"low", "moderate", "high", "High", " high", "critical"}

\* the optional arguments, present or absent
SystemDescriptions ==
    {[x \in {} |-> ""],
     [data_types |-> <<"CUI">>, mission |-> "Mission Critical logistics"],
     [data_types |-> <<"CUI">>, mission |-> "payroll"],
     [data_types |-> <<" cui ", "Top Secret">>, mission |-> "National Security system"],
     [data_types |-> <<"Public web content">>, mission |-> ""],
     [data_types |-> <<"PII">>, mission |-> "mission-critical"],
     [data_types |-> <<"public", "CUI">>, mission |-> "national security"],
     [data_types |-> <<"Classified">>],
     [data_types |-> <<>>, mission |-> "x",
      regulatory_requirements |-> <<"FISMA", "DFARS">>]}

BaselineArgs ==
    {[op |-> "baseline_selector", confidentiality_impact |-> c,
      integrity_impact |-> n, availability_impact |-> a] @@ d :
         c \in ImpactValues, n \in ImpactValues, a \in ImpactValues,
         d \in SystemDescriptions}
    \cup {[op |-> "baseline_selector", confidentiality_impact |-> "high",
           integrity_impact |-> "low"]}

InitBaseline ==
    /\ call \in BaselineArgs
    /\ store = <<>>
    /\ result = NotCalled
    /\ Idle

BaselineSelector ==
    /\ call.op = "baseline_selector"
    /\ result = NotCalled
    /\ result' = baseline_selector(call)
    /\ UNCHANGED <<store, call, prev, clock, tables, i, controls, tasks, reads,
                   readsDone, started>>

NextBaseline == BaselineSelector

SpecBaseline == InitBaseline /\ [][NextBaseline]_vars

BaselineChecked == call.op = "baseline_selector" /\ result # NotCalled

\* the three levels the claim ranges over, and their order
FipsLevels == {"low", "moderate", "high"}
AtMost(x, y) == x = y \/ x = "low" \/ y = "high"
Highest(c, n, a) == CHOOSE x \in {c, n, a} : \A y \in {c, n, a} : AtMost(y, x)

FipsCall ==
    /\ BaselineChecked
    /\ "availability_impact" \in DOMAIN call
    /\ call.confidentiality_impact \in FipsLevels
    /\ call.integrity_impact \in FipsLevels
    /\ call.availability_impact \in FipsLevels

\* C8: for every combination of confidentiality, integrity and availability
\* impact drawn from low, moderate, high, the overall categorization is the
\* highest of the three and the FedRAMP baseline is the one named after it.
C8_HighWaterMark ==
    FipsCall =>
        LET top == Highest(call.confidentiality_impact, call.integrity_impact,
                           call.availability_impact)
        IN  /\ ~IsRaised(result)
            /\ result.fips_199_categorization.overall = top
            /\ result.fedramp_baseline =
                   (CASE top = "low" -> "FedRAMP Low"
                      [] top = "moderate" -> "FedRAMP Moderate"
                      [] top = "high" -> "FedRAMP High")

\* availability alone carries the high-water mark
C8_Witness ==
    /\ FipsCall
    /\ call.confidentiality_impact = "low"
    /\ call.integrity_impact = "moderate"
    /\ call.availability_impact = "high"
    /\ result.fedramp_baseline = "FedRAMP High"

(***************************************************************************)
(* finding_generator.  The clock is a UTC instant: the proleptic ordinal   *)
(* of its date (datetime.toordinal) and the second of that day.            *)
(***************************************************************************)
\* str(n) for n >= 0
RECURSIVE str(_)
str(n) ==
    IF n < 10 THEN CharAt(DigitChars, n + 1)
    ELSE str(n \div 10) \o CharAt(DigitChars, (n % 10) + 1)

\* n zero-padded to width digits, as %Y, %m and %d print it
RECURSIVE zero_padded(_, _)
zero_padded(n, width) ==
    IF Len(str(n)) >= width THEN str(n) ELSE "0" \o zero_padded(n, width - 1)

DAYS_IN_MONTH == <<31, 28, 31, 30, 31, 30, 31, 31, 30, 31, 30, 31>>

RECURSIVE DAYS_BEFORE_MONTH(_)
DAYS_BEFORE_MONTH(month) ==
    IF month = 1 THEN 0 ELSE DAYS_BEFORE_MONTH(month - 1) + DAYS_IN_MONTH[month - 1]

\* the calendar date of an ordinal: [year, month, day]
ord2ymd(ordinal) ==
    LET n0   == ordinal - 1
        n400 == n0 \div 146097
        r400 == n0 % 146097
        n100 == r400 \div 36524
        r100 == r400 % 36524
        n4   == r100 \div 1461
        r4   == r100 % 1461
        n1   == r4 \div 365
        n    == r4 % 365
        year == n400 * 400 + 1 + n100 * 100 + n4 * 4 + n1
        leapyear == n1 = 3 /\ (n4 # 24 \/ n100 = 3)
        guess == (n + 50) \div 32
        before(m) == DAYS_BEFORE_MONTH(m) + (IF m > 2 /\ leapyear THEN 1 ELSE 0)
        month == IF before(guess) > n THEN guess - 1 ELSE guess
    IN  IF n1 = 4 \/ n100 = 4
        THEN [year |-> year - 1, month |-> 12, day |-> 31]
        ELSE [year |-> year, month |-> month, day |-> n - before(month) + 1]

\* now.strftime("%Y-%m-%d")
strftime_dashed(t) ==
    LET d == ord2ymd(t.day)
    IN  zero_padded(d.year, 4) \o "-" \o zero_padded(d.month, 2)
            \o "-" \o zero_padded(d.day, 2)

\* now.strftime("%Y%m%d")
strftime_compact(t) ==
    LET d == ord2ymd(t.day)
    IN  zero_padded(d.year, 4) \o zero_padded(d.month, 2) \o zero_padded(d.day, 2)

\* now + timedelta(days=n)
plus_days(t, n) == [t EXCEPT !.day = @ + n]

\* a plausible slip: the low tier counted as twelve 30-day months
remediation_days_in_months(risk) ==
    CASE risk = "critical" -> 30
      [] risk = "high" -> 90
      [] risk = "moderate" -> 180
      [] risk = "low" -> 360
      [] OTHER -> 180

\* a plausible slip: an unknown level given the longest timeline
remediation_days_default_low(risk) ==
    CASE risk = "critical" -> 30
      [] risk = "high" -> 90
      [] risk = "moderate" -> 180
      [] OTHER -> 365

\* {"critical": 30, "high": 90, "moderate": 180, "low": 365}.get(risk, 180)
remediation_days(risk) ==
    CASE risk = "critical" -> 30
      [] risk = "high" -> 90
      [] risk = "moderate" -> 180
      [] risk = "low" -> 365
      [] OTHER -> 180

\* a plausible slip: the half rounded up
midpoint_days_rounded_up(days) == (days + 1) \div 2

\* remediation_days // 2
midpoint_days(days) == days \div 2

\* rand is the outcome of random.randint(100, 999)
finding_generator(args, now, rand) ==
    LET timestamp == strftime_compact(now)
        date_str  == strftime_dashed(now)
        risk      == Get(args, "risk_level", "moderate")
        days      == remediation_days(risk)
        completion_date == strftime_dashed(plus_days(now, days))
        midpoint_date   == strftime_dashed(plus_days(now, midpoint_days(days)))
    IN  IF "gap_summary" \notin DOMAIN args THEN Raised("KeyError")
        ELSE
        \* point_of_contact is written with U+2014 in the source, ASCII here
        [finding_id |-> "F-" \o timestamp \o "-" \o str(rand),
         poam_required |-> TRUE,
         poam_entry |->
             [weakness_description |-> args.gap_summary,
              point_of_contact |-> "ISSO - to be assigned",
              resources_required |-> "Engineering and security team remediation effort",
              scheduled_completion_date |-> completion_date,
              milestones |->
                  <<[description |-> "Develop remediation plan and assign resources",
                     due_date |-> midpoint_date],
                    [description |-> "Implement remediation and validate effectiveness",
                     due_date |-> completion_date]>>,
              source |-> "assessment",
              status |-> "open",
              deviation_request |-> FALSE,
              original_detection_date |-> date_str,
              vendor_dependency |-> FALSE,
              false_positive |-> FALSE],
         remediation_steps |->
             <<args.gap_summary,
               "Remediation target: " \o completion_date \o " (" \o str(days)
                   \o " days based on " \o risk \o " risk level).">>]

(***************************************************************************)
(* SpecFinding: one finding_generator call at a drawn instant              *)
(***************************************************************************)
\* 1999-12-31, 2023-12-31, every day from 2024-02-01 to 2024-03-31,
\* 2024-08-31, 2024-12-31, 2025-03-01, 2026-11-01, 2027-02-28, 2099-12-31,
\* 2100-02-28
ClockDays ==
    {730119, 738885, 739129, 739251, 739311, 739921, 740040, 766644, 766703}
        \cup (738917..738976)

\* midnight, noon and the last second of the day
ClockSeconds == {0, 43200, 86399}

RiskLevels == {"critical", "high", "moderate", "low", "Critical", "severe", ""}

FindingArgs ==
    {[op |-> "finding_generator", gap_summary |-> "MFA not enforced",
      risk_level |-> r] : r \in RiskLevels}
    \cup {[op |-> "finding_generator", gap_summary |-> "MFA not enforced"],
          [op |-> "finding_generator", risk_level |-> "high"]}

\* outcomes of random.randint(100, 999) that the model follows
RandomDraws == {100, 101, 549, 999}

InitFinding ==
    /\ call \in FindingArgs
    /\ store = <<>>
    /\ result = NotCalled
    /\ prev = NotCalled
    /\ \E d \in ClockDays, s \in ClockSeconds : clock = [day |-> d, sec |-> s]
    /\ tables = <<>>
    /\ i = 0
    /\ controls = <<>>
    /\ tasks = <<>>
    /\ reads = <<>>
    /\ readsDone = <<>>
    /\ started = 0

FindingGenerator ==
    /\ call.op = "finding_generator"
    /\ result = NotCalled
    /\ \E rand \in RandomDraws : result' = finding_generator(call, clock, rand)
    /\ UNCHANGED <<store, call, prev, clock, tables, i, controls, tasks, reads,
                   readsDone, started>>

\* the caller makes the same call once more
FindingGeneratorAgain ==
    /\ call.op = "finding_generator"
    /\ result # NotCalled
    /\ prev = NotCalled
    /\ \E rand \in RandomDraws : result' = finding_generator(call, clock, rand)
    /\ prev' = result
    /\ UNCHANGED <<store, call, clock, tables, i, controls, tasks, reads,
                   readsDone, started>>

\* midnight passes between the two calls
MidnightPasses ==
    /\ call.op = "finding_generator"
    /\ result # NotCalled
    /\ prev = NotCalled
    /\ clock.sec = 86399
    /\ clock' = [day |-> clock.day + 1, sec |-> 0]
    /\ UNCHANGED <<store, call, result, prev, tables, i, controls, tasks, reads,
                   readsDone, started>>

NextFinding == FindingGenerator \/ FindingGeneratorAgain \/ MidnightPasses

SpecFinding == InitFinding /\ [][NextFinding]_vars

FindingGenerated ==
    call.op = "finding_generator" /\ result # NotCalled /\ ~IsRaised(result)

\* reading a date back from its text
DigitValue(c) == CHOOSE d \in 0..9 : CharAt(DigitChars, d + 1) = c

RECURSIVE NumberIn(_)
NumberIn(digits) ==
    IF Len(digits) = 0 THEN 0
    ELSE 10 * NumberIn(SubSeq(digits, 1, Len(digits) - 1))
            + DigitValue(CharAt(digits, Len(digits)))

IsIsoDate(s) ==
    /\ Len(s) = 10
    /\ \A k \in {1, 2, 3, 4, 6, 7, 9, 10} : IsDigit(CharAt(s, k))
    /\ CharAt(s, 5) = "-"
    /\ CharAt(s, 8) = "-"

IsLeapYear(y) == y % 4 = 0 /\ (y % 100 # 0 \/ y % 400 = 0)

MonthLength(y, m) ==
    IF m = 2 THEN (IF IsLeapYear(y) THEN 29 ELSE 28)
    ELSE IF m \in {4, 6, 9, 11} THEN 30 ELSE 31

RECURSIVE DaysBeforeMonth(_, _)
DaysBeforeMonth(y, m) ==
    IF m = 1 THEN 0 ELSE DaysBeforeMonth(y, m - 1) + MonthLength(y, m - 1)

\* days from 0001-01-01 (day 1) to the date written in s
DayNumber(s) ==
    LET y == NumberIn(SubSeq(s, 1, 4))
        m == NumberIn(SubSeq(s, 6, 7))
        d == NumberIn(SubSeq(s, 9, 10))
        p == y - 1
    IN  p * 365 + (p \div 4) - (p \div 100) + (p \div 400) + DaysBeforeMonth(y, m) + d

DaysBetween(from, to) == DayNumber(to) - DayNumber(from)

\* C9: the scheduled completion date lies exactly 30, 90, 180 or 365 days
\* after the original detection date for risk level critical, high,
\* moderate or low, whatever the current date.
C9_CompletionOffset ==
    (FindingGenerated /\ "risk_level" \in DOMAIN call
          /\ call.risk_level \in {"critical", "high", "moderate", "low"}) =>
        LET entry == result.poam_entry
        IN  /\ IsIsoDate(entry.original_detection_date)
            /\ IsIsoDate(entry.scheduled_completion_date)
            /\ DaysBetween(entry.original_detection_date,
                           entry.scheduled_completion_date)
                 = (CASE call.risk_level = "critical" -> 30
                      [] call.risk_level = "high" -> 90
                      [] call.risk_level = "moderate" -> 180
                      [] call.risk_level = "low" -> 365)

\* a low-risk finding detected on a leap day
C9_Witness ==
    /\ FindingGenerated
    /\ "risk_level" \in DOMAIN call
    /\ call.risk_level = "low"
    /\ result.poam_entry.original_detection_date = "2024-02-29"
    /\ result.poam_entry.scheduled_completion_date = "2025-02-28"

(***************************************************************************)
(* oscal_convert: the regular expressions, matched at the start of a cell  *)
(***************************************************************************)
\* the character at position k, "" beyond the end
Peek(s, k) == IF k >= 1 /\ k <= Len(s) THEN SubSeq(s, k, k) ELSE ""

\* the position after the longest run of class characters that starts at k
RECURSIVE run_end(_, _, _)
run_end(s, k, class) ==
    IF Peek(s, k) \in class THEN run_end(s, k + 1, class) ELSE k

NoMatch == [no_match |-> TRUE]
Matched(m) == "no_match" \notin DOMAIN m

\* [A-Z]{2}-\d+(?:\(\d+\))? : the positions after the id, the one with the
\* enhancement number first.  \d+ never gives a digit back, because what
\* follows the id is "(" or white space.
control_id_ends(s) ==
    IF ~(IsUpper(Peek(s, 1)) /\ IsUpper(Peek(s, 2)) /\ Peek(s, 3) = "-"
            /\ IsDigit(Peek(s, 4)))
    THEN <<>>
    ELSE LET e == run_end(s, 5, DigitSet)
             g == run_end(s, e + 1, DigitSet)
         IN  IF Peek(s, e) = "(" /\ g > e + 1 /\ Peek(s, g) = ")"
             THEN <<g + 1, e>>
             ELSE <<e>>

\* ^(id)\s+words : group 1, or None
header_match(s, words) ==
    LET ends  == control_id_ends(s)
        ok(e) == LET w == run_end(s, e, Whitespace)
                 IN  w > e /\ startswith(SubSeq(s, w, Len(s)), words)
    IN  IF Len(ends) >= 1 /\ ok(ends[1]) THEN SubSeq(s, 1, ends[1] - 1)
        ELSE IF Len(ends) = 2 /\ ok(ends[2]) THEN SubSeq(s, 1, ends[2] - 1)
        ELSE PyNone

\* a plausible slip: the summary pattern stops after the id
cis_header_id_only(s) == header_match(s, "")

_CIS_HEADER_RE(s) == header_match(s, "Control Summary Information")

_STATEMENT_HEADER_RE(s) == header_match(s, "What is the solution")

\* ^Part\s+\(?([a-z])\)?: ignoring case : the letter and the position after
\* the colon
_PART_LABEL_RE(text) ==
    LET w == run_end(text, 5, Whitespace)
        p == IF Peek(text, w) = "(" THEN w + 1 ELSE w
        q == IF Peek(text, p + 1) = ")" THEN p + 2 ELSE p + 1
    IN  IF /\ Len(text) >= 4
           /\ lower(SubSeq(text, 1, 4)) = "part"
           /\ w > 5
           /\ (IsLower(Peek(text, p)) \/ IsUpper(Peek(text, p)))
           /\ Peek(text, q) = ":"
        THEN [letter |-> Peek(text, p), end |-> q + 1]
        ELSE NoMatch

\* the position of the first line break at or after k, or one past the end
RECURSIVE line_end(_, _)
line_end(s, k) ==
    IF k > Len(s) \/ Peek(s, k) = "\n" THEN k ELSE line_end(s, k + 1)

\* ^Parameter\s+(\S+?):\s*(.*) : \S+? stops at the first colon it can
parameter_match(trimmed) ==
    LET w == run_end(trimmed, 10, Whitespace)
        colons == {c \in (w + 1)..Len(trimmed) :
                      /\ Peek(trimmed, c) = ":"
                      /\ \A k \in w..(c - 1) : Peek(trimmed, k) \notin Whitespace}
        c == CHOOSE x \in colons : \A y \in colons : x <= y
        v == run_end(trimmed, c + 1, Whitespace)
    IN  IF startswith(trimmed, "Parameter") /\ w > 10 /\ colons # {}
        THEN [name |-> SubSeq(trimmed, w, c - 1),
              value |-> SubSeq(trimmed, v, line_end(trimmed, v) - 1)]
        ELSE NoMatch

\* s.replace(old, new), old not empty
RECURSIVE replace(_, _, _)
replace(s, old, new) ==
    IF Len(s) < Len(old) THEN s
    ELSE IF startswith(s, old)
    THEN new \o replace(SubSeq(s, Len(old) + 1, Len(s)), old, new)
    ELSE SubSeq(s, 1, 1) \o replace(SubSeq(s, 2, Len(s)), old, new)

(***************************************************************************)
(* oscal_convert: the two table parsers                                    *)
(***************************************************************************)
\* the body of the loop over the cells of a summary table
cis_cell(acc, text) ==
    LET trimmed == strip(text)
    IN  IF startswith(trimmed, "Responsible Role:")
        THEN [acc EXCEPT !.roles = strip(replace(trimmed, "Responsible Role:", ""))]
        ELSE IF startswith(trimmed, "Implementation Status")
        THEN [acc EXCEPT !.status = trimmed]
        ELSE IF startswith(trimmed, "Control Origination")
        THEN [acc EXCEPT !.origination = trimmed]
        ELSE IF startswith(trimmed, "Parameter ")
        THEN LET param_match == parameter_match(trimmed)
             IN  IF Matched(param_match)
                 THEN [acc EXCEPT !.params =
                           (param_match.name :> param_match.value) @@ @]
                 ELSE acc
        ELSE acc

RECURSIVE cis_cells(_, _)
cis_cells(acc, cell_texts) ==
    IF Len(cell_texts) = 0 THEN acc
    ELSE cis_cells(cis_cell(acc, Head(cell_texts)), Tail(cell_texts))

NotCis == [not_cis |-> TRUE]
IsCis(cis) == "not_cis" \notin DOMAIN cis

_parse_cis_table(cell_texts) ==
    IF Len(cell_texts) = 0 THEN NotCis
    ELSE IF _CIS_HEADER_RE(cell_texts[1]) = PyNone THEN NotCis
    ELSE cis_cells([control_id |-> lower(_CIS_HEADER_RE(cell_texts[1])),
                    status |-> "", origination |-> "", roles |-> "",
                    params |-> <<>>],
                   cell_texts)

\* the body of the loop over the cells below the header of a statement table
statement_cell(acc, cell) ==
    LET text  == strip(cell)
        match == _PART_LABEL_RE(text)
    IN  IF text = "" THEN acc
        ELSE [parts |-> IF Matched(match)
                        THEN (lower(match.letter)
                                :> strip(SubSeq(text, match.end, Len(text))))
                               @@ acc.parts
                        ELSE acc.parts,
              lines |-> Append(acc.lines, text)]

RECURSIVE statement_cells(_, _)
statement_cells(acc, cell_texts) ==
    IF Len(cell_texts) = 0 THEN acc
    ELSE statement_cells(statement_cell(acc, Head(cell_texts)), Tail(cell_texts))

_parse_statement_table(cell_texts) ==
    LET below == IF Len(cell_texts) = 0 THEN <<>> ELSE Tail(cell_texts)
        acc   == statement_cells([parts |-> <<>>, lines |-> <<>>], below)
    IN  [parts |-> acc.parts, raw_narrative |-> join("\n", acc.lines)]

(***************************************************************************)
(* SpecExtract: _extract_docx_controls, one loop iteration per step.  A    *)
(* table is the list of its cell texts; i counts from 0 as in the source.  *)
(***************************************************************************)
\* the longest document
MaxTables == 3

SummaryAC2 ==
    <<"AC-2 Control Summary Information", "Responsible Role: ISSO",
      "Parameter AC-2(a): monthly",
      "Implementation Status (check all that apply): Implemented",
      "Control Origination: Service Provider Corporate">>
SummaryAC3 == <<"AC-3 Control Summary Information", "Implementation Status: Planned">>
SummaryAC2Enhancement == <<"AC-2(1)  Control Summary Information">>
StatementAC2 ==
    <<"AC-2 What is the solution and how is it implemented?",
      "Part a: Accounts are managed", " ", "Part (b): Reviewed monthly",
      "See policy">>
StatementAC3 == <<"AC-3 What is the solution", "Access is enforced">>
StatementHeaderOnly == <<"AC-2 What is the solution">>
RevisionTable == <<"Revision history", "v1">>
LowerCaseHeader == <<"ac-2 Control Summary Information">>
EmptyTable == <<>>

TablePool ==
    {SummaryAC2, SummaryAC3, SummaryAC2Enhancement, StatementAC2, StatementAC3,
     StatementHeaderOnly, RevisionTable, LowerCaseHeader, EmptyTable}

InitExtract ==
    /\ tables \in SeqsUpTo(TablePool, MaxTables)
    /\ i = 0
    /\ controls = <<>>
    /\ call = [op |-> "_extract_docx_controls"]
    /\ result = NotCalled
    /\ store = <<>>
    /\ prev = NotCalled
    /\ clock = [day |-> 0, sec |-> 0]
    /\ tasks = <<>>
    /\ reads = <<>>
    /\ readsDone = <<>>
    /\ started = 0

\* a plausible slip: whatever table follows a summary table is consumed
next_is_any_table(tbls, k) == k + 1 < Len(tbls)

\* i + 1 < len(tables) and next_texts and _STATEMENT_HEADER_RE.match(next_texts[0])
next_is_statement(tbls, k) ==
    /\ k + 1 < Len(tbls)
    /\ Len(tbls[k + 2]) > 0
    /\ _STATEMENT_HEADER_RE(tbls[k + 2][1]) # PyNone

ExtractedControl(cis, parts, raw_narrative) ==
    [control_id |-> cis.control_id, status |-> cis.status,
     origination |-> cis.origination, roles |-> cis.roles, params |-> cis.params,
     parts |-> parts, raw_narrative |-> raw_narrative]

Scanning ==
    call.op = "_extract_docx_controls" /\ result = NotCalled /\ i < Len(tables)

\* a plausible slip: break where the code says continue
SkipTable_breaks ==
    /\ Scanning
    /\ ~IsCis(_parse_cis_table(tables[i + 1]))
    /\ i' = Len(tables)
    /\ UNCHANGED <<store, call, result, prev, clock, tables, controls, tasks,
                   reads, readsDone, started>>

\* not a summary table: i += 1; continue
SkipTable ==
    /\ Scanning
    /\ ~IsCis(_parse_cis_table(tables[i + 1]))
    /\ i' = i + 1
    /\ UNCHANGED <<store, call, result, prev, clock, tables, controls, tasks,
                   reads, readsDone, started>>

\* a summary table and the statement table after it: i += 2
EmitPaired ==
    /\ Scanning
    /\ IsCis(_parse_cis_table(tables[i + 1]))
    /\ next_is_statement(tables, i)
    /\ LET statement == _parse_statement_table(tables[i + 2])
       IN  controls' = Append(controls,
                              ExtractedControl(_parse_cis_table(tables[i + 1]),
                                               statement.parts,
                                               statement.raw_narrative))
    /\ i' = i + 2
    /\ UNCHANGED <<store, call, result, prev, clock, tables, tasks, reads,
                   readsDone, started>>

\* a summary table on its own: i += 1
EmitUnpaired ==
    /\ Scanning
    /\ IsCis(_parse_cis_table(tables[i + 1]))
    /\ ~next_is_statement(tables, i)
    /\ controls' = Append(controls,
                          ExtractedControl(_parse_cis_table(tables[i + 1]), <<>>, ""))
    /\ i' = i + 1
    /\ UNCHANGED <<store, call, result, prev, clock, tables, tasks, reads,
                   readsDone, started>>

\* the loop is over: return controls (the list, held in a one-field record)
ReturnControls ==
    /\ call.op = "_extract_docx_controls"
    /\ result = NotCalled
    /\ i >= Len(tables)
    /\ result' = [controls |-> controls]
    /\ UNCHANGED <<store, call, prev, clock, tables, i, controls, tasks, reads,
                   readsDone, started>>

NextExtract == SkipTable \/ EmitPaired \/ EmitUnpaired \/ ReturnControls

SpecExtract == InitExtract /\ [][NextExtract]_vars

\* The scan is one sequential loop of a single thread and every iteration
\* is a finite computation: a step that can be taken is taken.  LoopFairness
\* is WF_vars(LoopBody) with ENABLED <<LoopBody>>_vars written out: an
\* iteration is possible exactly while the scan stands before a table.
LoopBody == SkipTable \/ EmitPaired \/ EmitUnpaired
LoopFairness == []<>(~Scanning) \/ []<><<LoopBody>>_vars
SpecExtractFair == SpecExtract /\ LoopFairness /\ WF_vars(ReturnControls)

Extracted == call.op = "_extract_docx_controls" /\ result # NotCalled

\* what the claims call a summary table and a statement table
IsSummaryTable(t) == Len(t) > 0 /\ _CIS_HEADER_RE(t[1]) # PyNone
IsStatementTable(t) == Len(t) > 0 /\ _STATEMENT_HEADER_RE(t[1]) # PyNone

SummaryPositions == {k \in 1..Len(tables) : IsSummaryTable(tables[k])}
\* the position of the n-th summary table of the document
NthSummary(n) ==
    CHOOSE k \in SummaryPositions :
        Cardinality({m \in SummaryPositions : m < k}) = n - 1

MaxReqs == 2

RequirementPool ==
    {"least privilege", "audit logging", " Audit Logging ", "MFA", ""}

ImplementationTexts ==
    {"we enforce least privilege",
     "We Enforce LEAST PRIVILEGE and audit logging",
     "  mfa\t",
     "audit  logging",
     ""}

GapControls ==
    {[id |-> "AC-6", name |-> "Least Privilege", requirements |-> rs] :
         rs \in SeqsUpTo(RequirementPool, MaxReqs)}
    \cup {[id |-> "AC-6", name |-> "Least Privilege"]}

GapQueryIds == {"AC-6", " ac-6 ", "AC-7"}
\* the second one is not a key of FRAMEWORK_FILES
GapFrameworks == {"NIST 800-53", "ISO 9001"}

InitGap ==
    /\ \E c \in GapControls :
         store = FRAMEWORK_FILES["NIST 800-53"]
                     :> [controls |-> <<[id |-> "AC-5", requirements |-> <<"MFA">>], c>>]
    /\ \E f \in GapFrameworks, q \in GapQueryIds, text \in ImplementationTexts :
         call = [op |-> "gap_analyzer", framework |-> f,
                 control_id |-> q, implementation_description |-> text]
    /\ result = NotCalled
    /\ Idle

GapAnalyzer ==
    /\ call.op = "gap_analyzer"
    /\ result = NotCalled
    /\ result' = gap_analyzer(store, call)
    /\ UNCHANGED <<store, call, prev, clock, tables, i, controls, tasks, reads,
                   readsDone, started>>

NextGap == GapAnalyzer

SpecGap == InitGap /\ [][NextGap]_vars

\* the control the call is about, when the document has it
GapControl == _find_control(store, call.framework, call.control_id)
GapFound ==
    /\ call.op = "gap_analyzer"
    /\ result # NotCalled
    /\ ~IsRaised(GapControl)
    /\ ~Falsy(GapControl)

\* needle occurs somewhere inside hay
OccursIn(needle, hay) ==
    \E a \in 1..(Len(hay) + 1) : \E b \in (a - 1)..Len(hay) : SubSeq(hay, a, b) = needle

Unaddressed(req) ==
    ~OccursIn(lower(strip(req)), lower(strip(call.implementation_description)))

\* C11: for a control that is found, heuristic_gaps is the list of its
\* requirements, in order, whose trimmed lower-cased text does not occur in
\* the trimmed lower-cased implementation text; "least privilege", "audit
\* logging" against "we enforce least privilege" leaves "audit logging".
C11_GapsAreUnmatchedRequirements ==
    GapFound =>
        /\ ~IsRaised(result)
        /\ result.heuristic_gaps
             = SelectSeq(Get(GapControl, "requirements", <<>>), Unaddressed)
        /\ (/\ Get(GapControl, "requirements", <<>>)
                 = <<"least privilege", "audit logging">>
            /\ call.implementation_description = "we enforce least privilege")
             => result.heuristic_gaps = <<"audit logging">>

\* the example of the claim
C11_Witness ==
    /\ GapFound
    /\ Get(GapControl, "requirements", <<>>) = <<"least privilege", "audit logging">>
    /\ call.implementation_description = "we enforce least privilege"
    /\ result.heuristic_gaps = <<"audit logging">>

(***************************************************************************)
(* ai_risk_classifier                                                      *)
(***************************************************************************)
HighRiskKeywords ==
    <<"biometric", "critical infrastructure", "employment", "law enforcement">>

\* any(kw in text for kw in keywords)
any_keyword_in(keywords, text) ==
    \E k \in 1..Len(keywords) : Contains(text, keywords[k])

\* a plausible slip: the high-tier rule is tried before the unacceptable one
ai_risk_classifier_high_first(args) ==
    IF "system_description" \notin DOMAIN args THEN Raised("KeyError")
    ELSE
    LET text == _normalize(args.system_description)
    IN  IF any_keyword_in(HighRiskKeywords, text)
        THEN [eu_ai_act_risk_tier |-> "high", nist_ai_rmf_function |-> "map"]
        ELSE IF Contains(text, "social scoring") \/ Contains(text, "subliminal")
        THEN [eu_ai_act_risk_tier |-> "unacceptable", nist_ai_rmf_function |-> "govern"]
        ELSE IF Contains(text, "chatbot") \/ Contains(text, "recommendation")
        THEN [eu_ai_act_risk_tier |-> "limited", nist_ai_rmf_function |-> "measure"]
        ELSE [eu_ai_act_risk_tier |-> "minimal", nist_ai_rmf_function |-> "manage"]

ai_risk_classifier(args) ==
    IF "system_description" \notin DOMAIN args THEN Raised("KeyError")
    ELSE
    LET text == _normalize(args.system_description)
    IN  IF Contains(text, "social scoring") \/ Contains(text, "subliminal")
        THEN [eu_ai_act_risk_tier |-> "unacceptable", nist_ai_rmf_function |-> "govern"]
        ELSE IF any_keyword_in(HighRiskKeywords, text)
        THEN [eu_ai_act_risk_tier |-> "high", nist_ai_rmf_function |-> "map"]
        ELSE IF Contains(text, "chatbot") \/ Contains(text, "recommendation")
        THEN [eu_ai_act_risk_tier |-> "limited", nist_ai_rmf_function |-> "measure"]
        ELSE [eu_ai_act_risk_tier |-> "minimal", nist_ai_rmf_function |-> "manage"]

(***************************************************************************)
(* SpecAiRisk: one ai_risk_classifier call on a drawn description          *)
(***************************************************************************)
\* the most phrases put together in one description
MaxPhrases == 2

DescriptionPhrases ==
    {"social scoring", "Subliminal cues", "biometric", "critical infrastructure",
     "Employment", "law enforcement", "chatbot", "recommendation", "hiring",
     "weather"}

HiringTool == "AI-powered hiring screening tool"

SystemDescriptionPool ==
    {join(" and ", ps) : ps \in SeqsUpTo(DescriptionPhrases, MaxPhrases)}
        \cup {HiringTool, " Social  Scoring ", "employ ment"}

InitAiRisk ==
    /\ call \in {[op |-> "ai_risk_classifier", system_description |-> d] :
                    d \in SystemDescriptionPool}
               \cup {[op |-> "ai_risk_classifier"]}
    /\ store = <<>>
    /\ result = NotCalled
    /\ Idle

AiRiskClassifier ==
    /\ call.op = "ai_risk_classifier"
    /\ result = NotCalled
    /\ result' = ai_risk_classifier(call)
    /\ UNCHANGED <<store, call, prev, clock, tables, i, controls, tasks, reads,
                   readsDone, started>>

NextAiRisk == AiRiskClassifier

SpecAiRisk == InitAiRisk /\ [][NextAiRisk]_vars

AiClassified ==
    /\ call.op = "ai_risk_classifier"
    /\ "system_description" \in DOMAIN call
    /\ result # NotCalled

\* C12: the description "AI-powered hiring screening tool" is classified in
\* the high tier.
C12_HiringToolIsHigh ==
    (AiClassified /\ call.system_description = HiringTool) =>
        /\ ~IsRaised(result)
        /\ result.eu_ai_act_risk_tier = "high"

\* the description read without regard to letter case
Mentions(phrase) == OccursIn(phrase, lower(call.system_description))
MentionsUnacceptable == Mentions("social scoring") \/ Mentions("subliminal")
MentionsHigh ==
    \/ Mentions("biometric")
    \/ Mentions("critical infrastructure")
    \/ Mentions("employment")
    \/ Mentions("law enforcement")
MentionsLimited == Mentions("chatbot") \/ Mentions("recommendation")

\* C13: the keyword rules apply in a fixed first-match order: an
\* unacceptable keyword gives unacceptable/govern whatever else the
\* description holds; a high-tier keyword without an unacceptable one gives
\* high/map even beside a limited-tier keyword; no keyword at all gives
\* minimal/manage.
C13_KeywordPrecedence ==
    AiClassified =>
        /\ ~IsRaised(result)
        /\ MentionsUnacceptable =>
             result = [eu_ai_act_risk_tier |-> "unacceptable",
                       nist_ai_rmf_function |-> "govern"]
        /\ (MentionsHigh /\ ~MentionsUnacceptable) =>
             result = [eu_ai_act_risk_tier |-> "high", nist_ai_rmf_function |-> "map"]
        /\ (~MentionsUnacceptable /\ ~MentionsHigh /\ ~MentionsLimited) =>
             result = [eu_ai_act_risk_tier |-> "minimal",
                       nist_ai_rmf_function |-> "manage"]

\* an unacceptable keyword after a high-tier one
C13_Witness ==
    /\ AiClassified
    /\ call.system_description = "biometric and social scoring"
    /\ result.eu_ai_act_risk_tier = "unacceptable"

(***************************************************************************)
(* SpecMapper: one framework_mapper call on a drawn mappings document      *)
(***************************************************************************)
\* the most entries in the mappings document
MaxEntries == 2
\* the longest control_ids list
MaxIds == 2

MappingEntries ==
    {[source |-> "NIST 800-53", target |-> "ISO 27001",
      mappings |-> <<[source_control_id |-> "AC-2", target_control_id |-> "A.9.2.1"],
                     [source_control_id |-> "AC-3", target_control_id |-> "A.9.4.1"]>>],
     [source |-> "NIST 800-53", target |-> "CMMC",
      mappings |-> <<[source_control_id |-> " ac-2 ",
                      target_control_id |-> "AC.L1-3.1.1"]>>],
     [source |-> "CMMC", target |-> "NIST 800-53",
      mappings |-> <<[source_control_id |-> "AC.L1-3.1.1", target_control_id |-> "AC-2"]>>],
     [source |-> "NIST 800-53", target |-> "SOC 2"],
     [target |-> "HIPAA", mappings |-> <<[target_control_id |-> "164.312(a)"]>>],
     [source |-> "nist 800-53", target |-> "PCI DSS",
      mappings |-> <<[source_control_id |-> "AC-2", target_control_id |-> "7.1"]>>]}

MappingDocs ==
    {[mappings |-> es] : es \in SeqsUpTo(MappingEntries, MaxEntries)}
        \cup {[version |-> "1"]}

MapperIds == {"AC-2", " ac-2\t", "ac-3", "AC.L1-3.1.1", "ZZ-9"}

\* the last one is the source of no entry
MapperFrameworks == {"NIST 800-53", "CMMC", "FedRAMP"}

InitMapper ==
    /\ \E d \in MappingDocs : store = MAPPINGS_FILE :> d
    /\ \E f \in MapperFrameworks, ids \in SeqsUpTo(MapperIds, MaxIds) :
         call = [op |-> "framework_mapper", source_framework |-> f, control_ids |-> ids]
    /\ result = NotCalled
    /\ Idle

FrameworkMapper ==
    /\ call.op = "framework_mapper"
    /\ result = NotCalled
    /\ result' = framework_mapper(store, call)
    /\ UNCHANGED <<store, call, prev, clock, tables, i, controls, tasks, reads,
                   readsDone, started>>

NextMapper == FrameworkMapper

SpecMapper == InitMapper /\ [][NextMapper]_vars

Mapped == call.op = "framework_mapper" /\ result # NotCalled

MappingDocument == store[MAPPINGS_FILE]
\* the (entry, pair) positions of the document's pairs recorded for framework f
PairsFrom(f) ==
    LET es == Get(MappingDocument, "mappings", <<>>)
        related == {e \in 1..Len(es) : "source" \in DOMAIN es[e] /\ es[e].source = f}
    IN  UNION {{<<e, m>> : m \in {n \in 1..Len(Get(es[e], "mappings", <<>>)) :
                                     "source_control_id" \in DOMAIN es[e].mappings[n]}} :
               e \in related}

\* C14: every pair the mappings document records under an entry whose source
\* is the queried framework is returned, with the entry's target framework,
\* in the group of each queried id that is a case or whitespace variant of
\* the pair's source id.
C14_MappedPairsReturned ==
    Mapped =>
        /\ ~IsRaised(result)
        /\ \A p \in PairsFrom(call.source_framework) :
             LET entry == MappingDocument.mappings[p[1]]
                 pair  == entry.mappings[p[2]]
             IN  \A k \in 1..Len(call.control_ids) :
                     IsVariant(call.control_ids[k], pair.source_control_id) =>
                         /\ result.mappings[k].source_control_id = call.control_ids[k]
                         /\ \E r \in 1..Len(result.mappings[k].related) :
                              result.mappings[k].related[r]
                                = [framework |-> entry.target,
                                   control_id |-> pair.target_control_id]

\* a padded lower-case id is queried and the document records AC-2
C14_Witness ==
    /\ Mapped
    /\ call.source_framework = "NIST 800-53"
    /\ call.control_ids = <<" ac-2\t">>
    /\ <<1, 1>> \in PairsFrom("NIST 800-53")
    /\ MappingDocument.mappings[1].target = "ISO 27001"
    /\ result.mappings[1].related[1]
         = [framework |-> "ISO 27001", control_id |-> "A.9.2.1"]

(***************************************************************************)
(* evidence_validator and load_evidence.  An evidence file is held as      *)
(* [text |-> its content], Unreadable, or Undecodable; a path outside the  *)
(* store does not exist.                                                   *)
(***************************************************************************)
\* bytes that are not UTF-8
Undecodable == [undecodable |-> TRUE]

\* anyio.Path(path).read_text(encoding="utf-8"): the content or the error
read_text(fs, path) ==
    IF path \notin DOMAIN fs THEN Raised("FileNotFoundError")
    ELSE IF fs[path] = Unreadable THEN Raised("PermissionError")
    ELSE IF fs[path] = Undecodable THEN Raised("UnicodeDecodeError")
    ELSE fs[path]

read_file(fs, path) == read_text(fs, path)

\* content[:2000]
EXCERPT_CHARS == 2000
excerpt_of(content) ==
    IF Len(content) <= EXCERPT_CHARS THEN content ELSE SubSeq(content, 1, EXCERPT_CHARS)

\* a plausible slip: a path that cannot be read is passed over
append_file_result_or_skip(file_results, fs, path, control_token) ==
    LET content == read_text(fs, path)
    IN  IF IsRaised(content) THEN file_results
        ELSE Append(file_results,
                    [path |-> path, readable |-> TRUE,
                     excerpt |-> excerpt_of(content.text),
                     heuristic_match |->
                         Contains(_normalize(content.text), control_token)])

\* the try / except of evidence_validator's loop
append_file_result(file_results, fs, path, control_token) ==
    LET content == read_text(fs, path)
    IN  IF IsRaised(content)
        THEN Append(file_results,
                    [path |-> path, readable |-> FALSE, excerpt |-> "",
                     heuristic_match |-> FALSE])
        ELSE Append(file_results,
                    [path |-> path, readable |-> TRUE,
                     excerpt |-> excerpt_of(content.text),
                     heuristic_match |->
                         Contains(_normalize(content.text), control_token)])

RECURSIVE validate_paths(_, _, _, _)
validate_paths(file_results, fs, paths, control_token) ==
    IF Len(paths) = 0 THEN file_results
    ELSE validate_paths(append_file_result(file_results, fs, Head(paths), control_token),
                        fs, Tail(paths), control_token)

evidence_validator(fs, args) ==
    IF {"control_id", "evidence_paths"} \ DOMAIN args # {} THEN Raised("KeyError")
    ELSE [control_id |-> args.control_id,
          file_results |-> validate_paths(<<>>, fs, args.evidence_paths,
                                          _normalize(args.control_id))]

\* the try / except of load_evidence's loop
append_entry(entries, fs, path) ==
    LET content == read_file(fs, path)
    IN  IF IsRaised(content)
        THEN Append(entries, [path |-> path, content |-> "[ERROR: File could not be read]"])
        ELSE Append(entries, [path |-> path, content |-> content.text])

RECURSIVE load_evidence_from(_, _, _)
load_evidence_from(entries, fs, paths) ==
    IF Len(paths) = 0 THEN entries
    ELSE load_evidence_from(append_entry(entries, fs, Head(paths)), fs, Tail(paths))

load_evidence(fs, paths) == load_evidence_from(<<>>, fs, paths)

(***************************************************************************)
(* SpecEvidence: one evidence_validator or load_evidence call over a       *)
(* directory in which some files cannot be read                            *)
(***************************************************************************)
\* the longest list of evidence paths
MaxPaths == 2

EvidenceFiles ==
    ("policy.md" :> [text |-> "Account management policy for AC-2 and AC-3."]) @@
    ("scan.txt" :> [text |-> "no findings"]) @@
    ("logo.png" :> Undecodable)

EvidenceStores ==
    {[f \in DOMAIN EvidenceFiles |-> IF f \in bad THEN Unreadable ELSE EvidenceFiles[f]] :
        bad \in SUBSET {"policy.md", "scan.txt"}}

EvidencePaths == {"policy.md", "scan.txt", "logo.png", "missing.pdf"}

InitEvidence ==
    /\ store \in EvidenceStores
    /\ \E paths \in SeqsUpTo(EvidencePaths, MaxPaths) :
         \/ \E cid \in {"ac-2", " AC-2 "} :
              call = [op |-> "evidence_validator", control_id |-> cid,
                      evidence_paths |-> paths]
         \/ call = [op |-> "load_evidence", paths |-> paths]
    /\ result = NotCalled
    /\ Idle

EvidenceValidator ==
    /\ call.op = "evidence_validator"
    /\ result = NotCalled
    /\ result' = evidence_validator(store, call)
    /\ UNCHANGED <<store, call, prev, clock, tables, i, controls, tasks, reads,
                   readsDone, started>>

\* the returned list is held in a one-field record
LoadEvidence ==
    /\ call.op = "load_evidence"
    /\ result = NotCalled
    /\ result' = [entries |-> load_evidence(store, call.paths)]
    /\ UNCHANGED <<store, call, prev, clock, tables, i, controls, tasks, reads,
                   readsDone, started>>

NextEvidence == EvidenceValidator \/ LoadEvidence

SpecEvidence == InitEvidence /\ [][NextEvidence]_vars

\* the path has no content that can be read as text
CannotBeRead(path) == path \notin DOMAIN store \/ "text" \notin DOMAIN store[path]

\* over N evidence paths of which any may be unreadable, evidence_validator
\* returns N results in input order without raising,
\* the unreadable ones flagged (not readable, empty excerpt, no match) and
\* the others read.
C15_ValidatorFlagsUnreadable ==
    (call.op = "evidence_validator" /\ result # NotCalled) =>
        /\ ~IsRaised(result)
        /\ Len(result.file_results) = Len(call.evidence_paths)
        /\ \A k \in 1..Len(call.evidence_paths) :
             LET r == result.file_results[k]
             IN  /\ r.path = call.evidence_paths[k]
                 /\ IF CannotBeRead(r.path)
                    THEN ~r.readable /\ r.excerpt = "" /\ ~r.heuristic_match
                    ELSE r.readable

\* likewise for load_evidence: N entries in input order, an unreadable path
\* carrying the error marker as its content and the others their text.
C15_LoaderMarksUnreadable ==
    (call.op = "load_evidence" /\ result # NotCalled) =>
        /\ Len(result.entries) = Len(call.paths)
        /\ \A k \in 1..Len(call.paths) :
             LET r == result.entries[k]
             IN  /\ r.path = call.paths[k]
                 /\ r.content = IF CannotBeRead(r.path)
                                THEN "[ERROR: File could not be read]"
                                ELSE store[r.path].text

\* C15: a batch of N evidence paths gives N results in input order, without
\* raising, from evidence_validator and from load_evidence alike; each
\* unreadable path is flagged and the remaining paths are still read.
C15_BatchSurvivesUnreadablePaths ==
    C15_ValidatorFlagsUnreadable /\ C15_LoaderMarksUnreadable

\* an unreadable path first, a readable one after it
C15_Witness ==
    /\ call.op = "evidence_validator"
    /\ result # NotCalled
    /\ call.evidence_paths = <<"missing.pdf", "policy.md">>
    /\ ~result.file_results[1].readable
    /\ result.file_results[2].readable
    /\ result.file_results[2].heuristic_match

\* C16: two invocations of an operation with identical arguments over
\* identical framework data return identical results, finding_generator's
\* finding_id and dates included.
C16_SameCallSameResult ==
    (call.op = "finding_generator" /\ prev # NotCalled) => result = prev

\* a finished call whose framework file or mappings file cannot be read
NeededFileUnreadable(t) ==
    /\ tasks[t].pc = "done"
    /\ FileRead(tasks[t].call) # ""
    /\ store[FileRead(tasks[t].call)] = Unreadable

\* C17: when the file an operation needs cannot be read or parsed, the
\* operation returns a typed unavailable / not-found result; the I/O or parse
\* error does not pass to its caller.
C17_UnreadableFileDegrades ==
    \A t \in DOMAIN tasks : NeededFileUnreadable(t) => ~IsRaised(tasks[t].result)

\* the key under which a framework's own nesting sits, "" for a framework
\* that has none
ShapeKey(fw) ==
    CASE fw = "CMMC" -> "levels"
      [] fw = "NIST AI RMF" -> "functions"
      [] fw = "FedRAMP" -> "baselines"
      [] OTHER -> ""

\* an object with neither a flat controls list nor the framework's nesting
NoKnownShape(fw, d) ==
    IsObject(d) /\ "controls" \notin DOMAIN d /\ ShapeKey(fw) \notin DOMAIN d

\* the loaded data matches none of the four shapes
UnrecognizedShape(fw, d) ==
    d # Unreadable /\ (NoKnownShape(fw, d) \/ ~WellFormed(d))

\* C18: when the loaded data of a supported framework matches none of the
\* four recognized shapes, or holds a value that is not an object where one
\* is expected, control_lookup does not raise, and returns the not-found
\* result when the data has no known shape at all.
C18_UnrecognizedShapeIsNotFound ==
    (/\ call.op = "control_lookup"
     /\ result # NotCalled
     /\ Supported(call.framework)
     /\ UnrecognizedShape(call.framework, DocOf(call.framework)))
        => /\ ~IsRaised(result)
           /\ NoKnownShape(call.framework, DocOf(call.framework))
                => result = NotFoundResult(call)

\* the call's data types and mission text, read without regard to letter case
HasDataType(word) ==
    \E k \in 1..Len(Get(call, "data_types", <<>>)) :
        OccursIn(word, lower(call.data_types[k]))
MissionSays(words) == OccursIn(words, lower(Get(call, "mission", "")))

\* the level the precedence rules give
ExpectedImpactLevel ==
    IF HasDataType("classified") \/ HasDataType("secret") THEN "IL6"
    ELSE IF HasDataType("cui")
            /\ (MissionSays("mission critical") \/ MissionSays("national security"))
    THEN "IL5"
    ELSE IF HasDataType("cui") THEN "IL4"
    ELSE IF HasDataType("public") \/ result.fips_199_categorization.overall = "low"
    THEN "IL2"
    ELSE PyNone

ScanStep == call.op = "_extract_docx_controls" /\ i' # i

\* C20: a statement table is never consumed speculatively.  A scan step that
\* stands on a statement table adds no record and advances by one; a step
\* advances by two only from a summary table followed by a statement table;
\* and a record is added only on a summary table, with parts and narrative
\* from the table right after it when the step took that table, empty
\* otherwise.
C20_NoSpeculativeConsume ==
    [][ScanStep =>
          /\ IsStatementTable(tables[i + 1]) => (i' = i + 1 /\ controls' = controls)
          /\ i' # i + 1 =>
               /\ i' = i + 2
               /\ IsSummaryTable(tables[i + 1])
               /\ IsStatementTable(tables[i + 2])
          /\ controls' # controls =>
               /\ IsSummaryTable(tables[i + 1])
               /\ Len(controls') = Len(controls) + 1
               /\ LET new == controls'[Len(controls')]
                  IN  IF i' = i + 2
                      THEN new.raw_narrative
                             = _parse_statement_table(tables[i + 2]).raw_narrative
                      ELSE DOMAIN new.parts = {} /\ new.raw_narrative = ""]_vars

\* statement tables first in the document and after a table of neither kind
C20_Witness ==
    /\ Extracted
    /\ tables = <<StatementAC2, RevisionTable, StatementAC3>>
    /\ result.controls = <<>>

\* C21: a statement table is consumed into the record of a summary table
\* only when its header announces the same control id as the summary table.
C21_PairedWithSameControl ==
    [][(ScanStep /\ i' = i + 2) =>
          _STATEMENT_HEADER_RE(tables[i + 2][1]) = _CIS_HEADER_RE(tables[i + 1][1])]_vars

\* the queried id is that of an element nested under the framework's groups
NestedMatch(d, groupKey, childKey) ==
    \E g \in Elems(Get(d, groupKey, <<>>)) :
        \E c \in Elems(Get(g, childKey, <<>>)) :
            IsVariant(call.control_id, Get(c, "id", ""))

NestedLookup(fw, groupKey, childKey) ==
    /\ call.op = "control_lookup"
    /\ result # NotCalled
    /\ call.framework = fw
    /\ WellFormed(DocOf(fw))
    /\ "controls" \notin DOMAIN DocOf(fw)
    /\ NestedMatch(DocOf(fw), groupKey, childKey)

\* C22: the record control_lookup returns for a CMMC practice nested under a
\* level carries that level, and the one it returns for a NIST AI RMF
\* category nested under a function carries that function.
C22_AnnotationReturned ==
    /\ NestedLookup("CMMC", "levels", "practices") =>
         (~IsRaised(result) /\ "level" \in DOMAIN result)
    /\ NestedLookup("NIST AI RMF", "functions", "categories") =>
         (~IsRaised(result) /\ "function" \in DOMAIN result)

\* the cells below the header of a statement table, trimmed
CellsBelowHeader(t) == [k \in 1..(Len(t) - 1) |-> strip(t[k + 1])]
IsPlainLine(text) == text # "" /\ ~Matched(_PART_LABEL_RE(text))
IsPartLine(text) == text # "" /\ Matched(_PART_LABEL_RE(text))

\* the summary table at position k is followed by a statement table
PairedAt(k) == k < Len(tables) /\ IsStatementTable(tables[k + 1])

\* C23: of the non-empty cells below the header of a parsed statement table,
\* each part-labelled one is stored in parts under its lower-cased letter
\* with the label stripped, and only the others make up raw_narrative.
C23_NarrativeExcludesParts ==
    Extracted =>
        \A n \in 1..Len(result.controls) :
            PairedAt(NthSummary(n)) =>
                LET cells == CellsBelowHeader(tables[NthSummary(n) + 1])
                IN  /\ result.controls[n].raw_narrative
                         = join("\n", SelectSeq(cells, IsPlainLine))
                    /\ \A k \in 1..Len(cells) :
                         IsPartLine(cells[k]) =>
                             lower(_PART_LABEL_RE(cells[k]).letter)
                                 \in DOMAIN result.controls[n].parts

\* the positions of the practices of level j that the submitted list does
\* not meet
MissingAt(j) ==
    {k \in 1..Len(CmmcLevels[j].practices) :
        ~MetBy(call.implementations, CmmcLevels[j].practices[k].id)}
LevelsWithGaps == {j \in 1..Len(CmmcLevels) : MissingAt(j) # {}}
\* the first level with a missing practice: where the walk halts
HaltLevel == CHOOSE j \in LevelsWithGaps : \A h \in LevelsWithGaps : j <= h

\* C24: the walk over the declared levels halts at the first level with a
\* practice that is not implemented: gaps_to_next_level is the number of that
\* level's missing practices and the level reported is the one before it,
\* whatever the levels after it hold; when no level has a missing practice
\* the last declared level is reported with no gaps.
C24_WalkHaltsAtFirstGap ==
    CmmcChecked =>
        IF LevelsWithGaps # {}
        THEN /\ result.gaps_to_next_level = Cardinality(MissingAt(HaltLevel))
             /\ result.level = IF HaltLevel = 1 THEN "None"
                               ELSE CmmcLevels[HaltLevel - 1].level
        ELSE /\ result.gaps_to_next_level = 0
             /\ result.level = IF Len(CmmcLevels) = 0 THEN "None"
                               ELSE CmmcLevels[Len(CmmcLevels)].level

\* the first level has a gap while the third is fully implemented
C24_Witness ==
    /\ CmmcChecked
    /\ Len(CmmcLevels) = 3
    /\ MissingAt(1) # {}
    /\ Len(CmmcLevels[3].practices) > 0
    /\ MissingAt(3) = {}
    /\ MissingAt(2) # {}
    /\ result.level = "None"
    /\ result.gaps_to_next_level = Cardinality(MissingAt(1))

\* the day offset of the risk tier a call selects
TierDays ==
    IF "risk_level" \notin DOMAIN call THEN 180
    ELSE CASE call.risk_level = "critical" -> 30
           [] call.risk_level = "high" -> 90
           [] call.risk_level = "low" -> 365
           [] OTHER -> 180

\* C25: in every result the first milestone is due half the risk tier's day
\* offset after the detection date (whole days: 15, 45, 90 and 182), the
\* second milestone is due on the scheduled completion date, and the first
\* never falls after the second.
C25_MilestoneDates ==
    FindingGenerated =>
        LET entry == result.poam_entry
            plan  == entry.milestones[1].due_date
            done  == entry.milestones[2].due_date
        IN  /\ Len(entry.milestones) = 2
            /\ IsIsoDate(plan)
            /\ DaysBetween(entry.original_detection_date, plan) = TierDays \div 2
            /\ done = entry.scheduled_completion_date
            /\ DaysBetween(plan, done) >= 0

\* a low-risk finding detected on a leap day: the plan is due 182 days later
C25_Witness ==
    /\ FindingGenerated
    /\ "risk_level" \in DOMAIN call
    /\ call.risk_level = "low"
    /\ result.poam_entry.original_detection_date = "2024-02-29"
    /\ result.poam_entry.milestones[1].due_date = "2024-08-29"
    /\ result.poam_entry.milestones[2].due_date = "2025-02-28"

\* C30: a call with risk_level absent, or with a value that is not one of
\* critical, high, moderate and low, does not fail and uses the moderate
\* timeline: completion 180 days and the first milestone 90 days after the
\* detection date.
C30_UnknownRiskIsModerate ==
    (call.op = "finding_generator" /\ result # NotCalled
          /\ "gap_summary" \in DOMAIN call
          /\ ("risk_level" \in DOMAIN call =>
                call.risk_level \notin {"critical", "high", "moderate", "low"})) =>
        /\ ~IsRaised(result)
        /\ DaysBetween(result.poam_entry.original_detection_date,
                       result.poam_entry.scheduled_completion_date) = 180
        /\ DaysBetween(result.poam_entry.original_detection_date,
                       result.poam_entry.milestones[1].due_date) = 90

\* a call without risk_level, and one with a capitalised level
C30_Witness ==
    /\ FindingGenerated
    /\ \/ "risk_level" \notin DOMAIN call
       \/ call.risk_level = "Critical"
    /\ result.poam_entry.original_detection_date = "2024-02-29"
    /\ result.poam_entry.scheduled_completion_date = "2024-08-27"
    /\ result.poam_entry.milestones[1].due_date = "2024-05-29"

\* tables that are neither a summary nor a statement table
NeitherPositions ==
    {k \in 1..Len(tables) : ~IsSummaryTable(tables[k]) /\ ~IsStatementTable(tables[k])}

\* C26: the table scan is one sequential pass that always ends.  Each step
\* advances the index by two when it stands on a summary table followed by
\* a statement table and by one in every other case; the index never
\* exceeds the number of tables; the scan returns; and a table of neither
\* kind does not stop it: every summary table after such a table has its
\* record in the result.
C26_ScanTerminates ==
    /\ [][ScanStep =>
            /\ i < Len(tables)
            /\ IF /\ IsSummaryTable(tables[i + 1])
                  /\ i + 2 <= Len(tables)
                  /\ IsStatementTable(tables[i + 2])
               THEN i' = i + 2
               ELSE i' = i + 1]_vars
    /\ [](i <= Len(tables))
    /\ <>Extracted
    /\ [](Extracted =>
            \A k \in NeitherPositions : \A m \in SummaryPositions :
                k < m =>
                    LET n == Cardinality({p \in SummaryPositions : p <= m})
                    IN  /\ n <= Len(result.controls)
                        /\ result.controls[n].control_id
                             = _parse_cis_table(tables[m]).control_id)

\* a table of neither kind, then a summary table and its statement table:
\* steps of one and of two, ending at the number of tables
C26_Witness ==
    /\ Extracted
    /\ tables = <<RevisionTable, SummaryAC2, StatementAC2>>
    /\ i = 3
    /\ Len(result.controls) = 1
    /\ result.controls[1].control_id = "ac-2"

\* the pairs recorded for the queried framework under a variant of id cid
PairsFor(cid) ==
    {p \in PairsFrom(call.source_framework) :
        IsVariant(cid, MappingDocument.mappings[p[1]].mappings[p[2]].source_control_id)}

\* C27: the result holds one group per queried id, in the order of the
\* query and with the id as given, duplicates included; a group holds
\* nothing but pairs of entries whose source is the queried framework and
\* whose source id is, normalized, the normalized queried id; an id without
\* such a pair, or a framework that is the source of no entry, gives an
\* empty group and no error.
C27_OneGroupPerQueriedId ==
    Mapped =>
        /\ ~IsRaised(result)
        /\ result.source_framework = call.source_framework
        /\ Len(result.mappings) = Len(call.control_ids)
        /\ \A k \in 1..Len(call.control_ids) :
             LET group == result.mappings[k]
             IN  /\ group.source_control_id = call.control_ids[k]
                 /\ Len(group.related) = Cardinality(PairsFor(call.control_ids[k]))
                 /\ \A r \in 1..Len(group.related) :
                      \E p \in PairsFor(call.control_ids[k]) :
                          LET entry == MappingDocument.mappings[p[1]]
                          IN  group.related[r]
                                = [framework |-> entry.target,
                                   control_id |-> entry.mappings[p[2]].target_control_id]
                 /\ PairsFor(call.control_ids[k]) = {} => group.related = <<>>

\* the same id queried twice, beside entries of another source
C27_Witness ==
    /\ Mapped
    /\ call.source_framework = "NIST 800-53"
    /\ call.control_ids = <<"AC-2", "AC-2">>
    /\ Len(Get(MappingDocument, "mappings", <<>>)) = 2
    /\ Get(MappingDocument.mappings[1], "source", PyNone) = "CMMC"
    /\ MappingDocument.mappings[2].target = "ISO 27001"
    /\ Len(result.mappings) = 2
    /\ result.mappings[1].related = <<[framework |-> "ISO 27001", control_id |-> "A.9.2.1"]>>
    /\ result.mappings[2] = result.mappings[1]

\* how an impact argument is read: exactly low, moderate or high, and low
\* for anything else
ReadAs(v) == IF v \in FipsLevels THEN v ELSE "low"

\* C28: the three impact arguments are matched exactly and with their case
\* against low, moderate and high; any other value ("High", " high",
\* "critical") counts as low for the overall level and the FedRAMP baseline,
\* and is still returned as given in fips_199_categorization and in the
\* first line of the rationale.
C28_UnrecognizedImpactIsLow ==
    (BaselineChecked /\ "availability_impact" \in DOMAIN call) =>
        LET c == call.confidentiality_impact
            n == call.integrity_impact
            a == call.availability_impact
            top == Highest(ReadAs(c), ReadAs(n), ReadAs(a))
        IN  /\ ~IsRaised(result)
            /\ result.fips_199_categorization
                 = [confidentiality |-> c, integrity |-> n, availability |-> a,
                    overall |-> top]
            /\ result.fedramp_baseline =
                   (CASE top = "low" -> "FedRAMP Low"
                      [] top = "moderate" -> "FedRAMP Moderate"
                      [] top = "high" -> "FedRAMP High")
            /\ result.rationale[1]
                 = "FIPS 199 categorization: C=" \o c \o ", I=" \o n \o ", A=" \o a
            /\ result.rationale[2]
                 = "High-water mark: " \o top
                     \o " (highest of C/I/A determines overall impact)"

\* "High" and "critical" beside moderate: the overall level is moderate
C28_Witness ==
    /\ BaselineChecked
    /\ call.confidentiality_impact = "High"
    /\ call.integrity_impact = "moderate"
    /\ "availability_impact" \in DOMAIN call
    /\ call.availability_impact = "critical"
    /\ result.fips_199_categorization.overall = "moderate"
    /\ result.fips_199_categorization.confidentiality = "High"
    /\ result.fedramp_baseline = "FedRAMP Moderate"

\* the call names a framework that is not supported, or an id that is a
\* variant of no id of the framework's document
GapNotFound ==
    /\ call.op = "gap_analyzer"
    /\ result # NotCalled
    /\ \/ ~Supported(call.framework)
       \/ \A id \in IdsPresent(call.framework, DocOf(call.framework)) :
              ~IsVariant(call.control_id, id)

NotFoundSentinel == "Control not found in data set."

\* C29: for a framework or control the lookup does not find, gap_analyzer
\* returns without raising: requirements is empty, heuristic_gaps is the one
\* entry "Control not found in data set.", control_id and
\* implementation_description are those of the call.  The sentinel never
\* stands beside gaps taken from requirements.
C29_NotFoundSentinel ==
    /\ GapNotFound =>
         /\ ~IsRaised(result)
         /\ result = [control_id |-> call.control_id,
                      requirements |-> <<>>,
                      implementation_description |-> call.implementation_description,
                      heuristic_gaps |-> <<NotFoundSentinel>>]
    /\ (call.op = "gap_analyzer" /\ result # NotCalled /\ ~IsRaised(result)
            /\ NotFoundSentinel \in Elems(result.heuristic_gaps)) =>
         /\ GapNotFound
         /\ Len(result.heuristic_gaps) = 1
         /\ result.requirements = <<>>

\* a control the document does not have, and a framework that is not
\* supported
C29_Witness ==
    /\ GapNotFound
    /\ \/ call.framework = "NIST 800-53" /\ call.control_id = "AC-7"
       \/ call.framework = "ISO 9001" /\ call.control_id = "AC-6"
    /\ call.implementation_description = "we enforce least privilege"
    /\ result.heuristic_gaps = <<NotFoundSentinel>>

====
